---- MODULE Spec2Model ----
(***************************************************************************)
(* A model of the decompilation pipeline of unjavac:                       *)
(*   build_cfg  ->  stack_to_vars (transform)  ->  var_prop (propagate).   *)
(* The input is a method's Code: a list of (pc, Instruction) pairs.        *)
(* Rust's 0-based indices are kept in the data (block ids, statement       *)
(* indices, pcs); TLA+ sequences are 1-based, so block b is bbs[b + 1].    *)
(* A panic (assert!, unwrap on None, unimplemented!, HashMap index miss)   *)
(* ends the pipeline in stage "aborted" with the panic's message.          *)
(***************************************************************************)
EXTENDS Integers, Sequences, FiniteSets, TLC

VARIABLES
    code,           \* Code.instructions: sequence of <<pc, instruction>>
    stage,          \* position of decompile(): "transform_method", "build_cfg", ..., "done"
    cfg,            \* the Cfg the current pass works on
    stack_at_bb,    \* transform: recorded entry layout per node (None / Some top)
    new_bbs,        \* transform: lifted basic blocks per node
    dfs,            \* transform: the Dfs visitor: [stack, discovered]
    ret_tops,       \* history: <<value, top before, top after>> of each Return lifted
    post_tops,      \* history: per node, the layout after its block was executed
    lifted,         \* the Cfg<Statement, Expr> returned by transform
    info,           \* var_prop: DefinitionInfo [definitions, relevant_on_bb_entry]
    defs,           \* var_prop: propagatable_definitions
    todo,           \* var_prop: keys propagate_in_definitions has yet to iterate over
    abort,          \* None, or Some(panic message)
    exception_table,\* CodeAttribute.exception_table of the method's Code attribute
    decl,           \* the Declaration handle_constructors leaves: None until then
    ctx,            \* structure: Context [dominators, postdominators, loops, ...]
    structured      \* structure: None, or Some(the Block structure_cfg returns)

vars == <<code, stage, cfg, stack_at_bb, new_bbs, dfs, ret_tops, post_tops,
          lifted, info, defs, todo, abort, exception_table, decl, ctx, structured>>

\* what the passes up to propagate leave alone
later == <<exception_table, decl, ctx, structured>>

(***************************************************************************)
(* Bounds of the model.                                                    *)
(***************************************************************************)
MaxLen == 3         \* longest instruction list of the general family
MaxPropLen == 6     \* longest instruction list of the propagation family
MaxLocal == 1       \* highest local variable index of the binary-operation family
MaxCtorLen == 4     \* longest instruction list of the constructor family
MaxBlocks == 5      \* most blocks of a list of the loop family
MaxGotos == 1       \* most unconditional jumps of a list of the loop family
MaxDepth == 12      \* deepest call chain of structure_from_to followed
MaxLoads == 2       \* most loads before the jump of a list of the jump family

None == <<"None">>
Some(x) == <<"Some", x>>
IsSome(o) == o[1] = "Some"
Unwrap(o) == o[2]

Range(s) == {s[i] : i \in 1..Len(s)}

(***************************************************************************)
(* Instructions (disassembler/instructions.rs).                            *)
(*   <<"Nop">>  <<"Load", rvalue>>  <<"Store", lvalue>>                    *)
(*   <<"Arithm", <<"UnaryOp", op>>>>  <<"Arithm", <<"BinaryOp", op>>>>     *)
(*   <<"Arithm", <<"IncreaseLocal", local_index, increase>>>>              *)
(*   <<"Jump", condition, address>>  <<"Invoke", method_index, kind>>      *)
(*   <<"Return", None | Some(<<>>)>>  <<"Throw">>                          *)
(* rvalue: <<"Constant", n>> | <<"LValue", lvalue>>                        *)
(* lvalue: <<"Local", i>> | <<"Stack", i>> | <<"StaticField", f>>          *)
(*         | <<"InstanceField", object_stack_index, f>>                    *)
(* A jump not yet decoded is <<"Opcode", opcode, offset>>: the opcode byte  *)
(* and the two operand bytes read as a u16.                                *)
(***************************************************************************)
IsJump(instr) == instr[1] = "Jump"
IsReturn(instr) == instr[1] = "Return"

\* Bytes an instruction occupies: the opcode and the operand bytes its
\* decoder reads from the iterator.  A literal outside -1..5 is loaded by
\* index (ldc); the lifter turns both kinds of constant into Expr::Literal.
InstrWidth(instr) ==
    CASE instr[1] = "Jump" -> 3
      [] instr[1] = "Opcode" -> 3
      [] instr[1] = "Invoke" -> 3
      [] instr[1] = "Arithm" /\ instr[2][1] = "IncreaseLocal" -> 3
      [] instr[1] = "Load" /\ instr[2][1] = "LValue"
            /\ instr[2][2][1] \in {"StaticField", "InstanceField"} -> 3
      [] instr[1] = "Store" /\ instr[2][1] \in {"StaticField", "InstanceField"} -> 3
      [] instr[1] = "Load" /\ instr[2][1] = "Constant" /\ instr[2][2] \notin -1..5 -> 2
      [] OTHER -> 1

\* pc of the instruction at 0-based index i of the instruction list is
\* (i = Len(is) gives the code length): disassemble() numbers each
\* instruction with the offset of its opcode byte.
RECURSIVE PcOf(_, _)
PcOf(is, i) == IF i = 0 THEN 0 ELSE PcOf(is, i - 1) + InstrWidth(is[i])

(***************************************************************************)
(* disassemble (disassembler/disassembler.rs) and decode_jump              *)
(* (disassembler/instructions.rs).  A panic yields ok = FALSE.             *)
(***************************************************************************)
\* Ordering::from_u8: None stands for unreachable!()
from_u8(i) ==
    CASE i = 0 -> Some("EQ")
      [] i = 1 -> Some("NE")
      [] i = 2 -> Some("LT")
      [] i = 3 -> Some("GE")
      [] i = 4 -> Some("GT")
      [] i = 5 -> Some("LE")
      [] OTHER -> None

\* the cast of a u16 to i16
as_i16(u) == IF u >= 32768 THEN u - 65536 ELSE u

\* decode_jump: opcodes 0x99..0x9e are 153..158, 0x9f..0xa4 are 159..164,
\* 0xa5..0xa6 are 165..166 and 0xa7 is 167; the address is cast back to u16
decode_jump(opcode, pc, offset) ==
    LET address == (pc + as_i16(offset)) % 65536
        kind == CASE opcode \in 153..158 -> "CmpZero"
                  [] opcode \in 159..164 -> "Cmp"
                  [] OTHER -> "CmpRef"
        ord == CASE opcode \in 153..158 -> from_u8(opcode - 153)
                 [] opcode \in 159..164 -> from_u8(opcode - 159)
                 [] OTHER -> from_u8(opcode - 159)
    IN IF opcode \notin 153..167
       THEN [ok |-> FALSE, instr |-> <<>>, msg |-> <<"not yet implemented">>]
       ELSE IF opcode = 167
       THEN [ok |-> TRUE, instr |-> <<"Jump", None, address>>, msg |-> <<>>]
       ELSE IF ~IsSome(ord)
       THEN [ok |-> FALSE, instr |-> <<>>,
             msg |-> <<"internal error: entered unreachable code">>]
       ELSE [ok |-> TRUE, instr |-> <<"Jump", Some(<<kind, Unwrap(ord)>>), address>>,
             msg |-> <<>>]

\* decode_instruction: the jumps are decoded, the other instructions are
\* given decoded
decode_instruction(pc, instr) ==
    IF instr[1] = "Opcode"
    THEN decode_jump(instr[2], pc, instr[3])
    ELSE [ok |-> TRUE, instr |-> instr, msg |-> <<>>]

\* disassemble: the instructions with their pc, or the first panic
disassemble(c) ==
    LET d == [i \in 1..Len(c) |-> decode_instruction(c[i][1], c[i][2])]
        bad == {i \in 1..Len(c) : ~d[i].ok}
    IN IF bad /= {}
       THEN [ok |-> FALSE, code |-> <<>>,
             msg |-> d[CHOOSE i \in bad : \A j \in bad : i <= j].msg]
       ELSE [ok |-> TRUE, code |-> [i \in 1..Len(c) |-> <<c[i][1], d[i].instr>>],
             msg |-> <<>>]

(***************************************************************************)
(* build_cfg (decompiler/cfg.rs)                                           *)
(***************************************************************************)
HasPc(instrs, pc) == \E i \in 1..Len(instrs) : instrs[i][1] = pc

\* pc_to_index[&pc], 0-based
pc_to_index(instrs, pc) == (CHOOSE i \in 1..Len(instrs) : instrs[i][1] = pc) - 1

\* a variant of bb_starts without the leaders that follow a Return
bb_starts_jumps_only(instrs) ==
    {0}
    \cup {i : i \in {j \in 1..Len(instrs) - 1 : IsJump(instrs[j][2])}}
    \cup {pc_to_index(instrs, instrs[j][2][3]) :
            j \in {k \in 1..Len(instrs) : IsJump(instrs[k][2])}}

\* the HashSet bb_starts after the first loop over the instructions
bb_starts(instrs) ==
    {0}
    \cup {i : i \in {j \in 1..Len(instrs) - 1 :
                        IsJump(instrs[j][2]) \/ IsReturn(instrs[j][2])}}
    \cup {pc_to_index(instrs, instrs[j][2][3]) :
            j \in {k \in 1..Len(instrs) : IsJump(instrs[k][2])}}

\* bb_starts collected into a Vec and sorted
RECURSIVE SortedSeq(_)
SortedSeq(S) ==
    IF S = {} THEN <<>>
    ELSE LET m == CHOOSE x \in S : \A y \in S : x <= y
         IN <<m>> \o SortedSeq(S \ {m})

\* the blocks cut off the instruction list by split_off, in instruction order
Blocks(instrs, starts) ==
    [k \in 1..Len(starts) |->
        LET from == starts[k] + 1
            to == IF k < Len(starts) THEN starts[k + 1] ELSE Len(instrs)
        IN SubSeq(instrs, from, to)]

\* pc_to_bb_id[&address]: the id of the block that starts at pc address
pc_to_bb_id(instrs, starts, address) ==
    (CHOOSE k \in 1..Len(starts) : instrs[starts[k] + 1][1] = address) - 1

\* a variant of BlockEdges that gives the edge of an unconditional jump the
\* weight false
BlockEdgesAllFalse(instrs, starts, block_id, block) ==
    LET last == block[Len(block)][2]
    IN CASE IsJump(last) ->
              IF IsSome(last[2])
              THEN <<<<block_id, block_id + 1, FALSE>>,
                     <<block_id, pc_to_bb_id(instrs, starts, last[3]), TRUE>>>>
              ELSE <<<<block_id, pc_to_bb_id(instrs, starts, last[3]), FALSE>>>>
         [] IsReturn(last) -> <<>>
         [] OTHER -> <<<<block_id, block_id + 1, FALSE>>>>

\* the edges pushed for block block_id by the match on its last instruction
BlockEdges(instrs, starts, block_id, block) ==
    LET last == block[Len(block)][2]
    IN CASE IsJump(last) ->
              (IF IsSome(last[2]) THEN <<<<block_id, block_id + 1, FALSE>>>> ELSE <<>>)
              \o <<<<block_id, pc_to_bb_id(instrs, starts, last[3]), TRUE>>>>
         [] IsReturn(last) -> <<>>
         [] OTHER -> <<<<block_id, block_id + 1, FALSE>>>>

\* the BasicBlock made of a block: the jump removed, the condition kept
MakeBasicBlock(block) ==
    LET last == block[Len(block)][2]
        kept == IF IsJump(last) THEN SubSeq(block, 1, Len(block) - 1) ELSE block
    IN [stmts |-> [i \in 1..Len(kept) |-> kept[i][2]],
        terminator |-> IF IsJump(last) THEN last[2] ELSE None]

EmptyBasicBlock == [stmts |-> <<>>, terminator |-> None]

RECURSIVE ConcatAll(_)
ConcatAll(ss) == IF ss = <<>> THEN <<>> ELSE Head(ss) \o ConcatAll(Tail(ss))

\* out-edges of node v, as petgraph iterates them: most recently added first
RECURSIVE OutEdges(_, _)
OutEdges(edges, v) ==
    IF edges = <<>> THEN <<>>
    ELSE LET e == edges[Len(edges)]
             rest == OutEdges(SubSeq(edges, 1, Len(edges) - 1), v)
         IN IF e[1] = v THEN <<e>> \o rest ELSE rest

\* neighbors_directed(v, Outgoing): the targets of OutEdges
Neighbors(edges, v) == LET oe == OutEdges(edges, v) IN [i \in 1..Len(oe) |-> oe[i][2]]

\* a variant of ClosingEdges that adds no edge
ClosingEdgesNone(edges, node_count, exit_point) == <<>>

\* the edges added from every node without out-edges (but exit) to exit
ClosingEdges(edges, node_count, exit_point) ==
    LET zero == {n \in 0..node_count - 1 :
                    n /= exit_point /\ OutEdges(edges, n) = <<>>}
        order == SortedSeq(zero)
    IN [i \in 1..Len(order) |-> <<order[i], exit_point, FALSE>>]

\* build_cfg panics on an empty instruction list (block.last().unwrap()) and
\* on a jump address that is no instruction's pc (pc_to_index[&address])
BuildCfgPanics(instrs) ==
    \/ instrs = <<>>
    \/ \E j \in 1..Len(instrs) :
          IsJump(instrs[j][2]) /\ ~HasPc(instrs, instrs[j][2][3])

\* the Cfg built from the blocks cut at starts
CfgOfBlocks(instrs, starts, blocks) ==
    LET n == Len(blocks)
        entry_point == n
        exit_point == n + 1
    IN CHOOSE result \in
        {[bbs |-> [k \in 1..n |-> MakeBasicBlock(blocks[k])]
                    \o <<EmptyBasicBlock, EmptyBasicBlock>>,
          edges |-> edges \o ClosingEdges(edges, n + 2, exit_point),
          entry_point |-> entry_point,
          exit_point |-> exit_point]
            : edges \in {ConcatAll([k \in 1..n |->
                            BlockEdges(instrs, starts, k - 1, blocks[k])])
                         \o <<<<entry_point, 0, FALSE>>>>}} : TRUE

BuildCfg(instrs) ==
    CHOOSE result \in
        {CfgOfBlocks(instrs, starts, Blocks(instrs, starts))
            : starts \in {SortedSeq(bb_starts(instrs))}} : TRUE

NoCfg == [bbs |-> <<>>, edges |-> <<>>, entry_point |-> 0, exit_point |-> 0]

(***************************************************************************)
(* Metadata: the constant-pool tables the lifter reads.  A method          *)
(* reference gives the number of parameters of its signature and whether   *)
(* its return type is Void; a class reference gives the class's name.      *)
(***************************************************************************)
class_refs == (1 :> "A") @@ (2 :> "java/lang/Object")

method_refs ==
    (1 :> [name |-> "run", class_ref |-> 1, parameters |-> 1, void |-> TRUE])
    @@ (2 :> [name |-> "get", class_ref |-> 1, parameters |-> 0, void |-> FALSE])
    @@ (3 :> [name |-> "<init>", class_ref |-> 2, parameters |-> 0, void |-> TRUE])
    @@ (4 :> [name |-> "<init>", class_ref |-> 1, parameters |-> 0, void |-> TRUE])
    @@ (5 :> [name |-> "close", class_ref |-> 1, parameters |-> 0, void |-> TRUE])

\* CompilationUnit.name of the unit the method is declared in
unit_name == "A"

\* Method.name of the method the pipeline runs on
MethodNames == {"<init>", "run"}

(***************************************************************************)
(* Lifted code (decompiler/types.rs).                                      *)
(*  Expr: <<"Literal", n>> | <<"Assignable", assignable>>                  *)
(*      | <<"UnaryOp", op, e>> | <<"BinaryOp", op, e1, e2>>                *)
(*      | <<"Invoke", None | Some(e), method_index, <<args>>>>             *)
(*      | <<"Assign", assignable, None | Some(op), e>>                     *)
(*  Assignable: <<"Variable", ident>> | <<"Field", None | Some(e), f>>     *)
(*  ident: <<"stack", k>> | <<"local", i>>  (format!("stack_{}", k), ...)  *)
(*  Statement: <<"Nop">> | <<"Expr", e>> | <<"Return", None | Some(e)>>    *)
(***************************************************************************)
stack(i) == <<"stack", i>>
local(i) == <<"local", i>>
mk_variable(id) == <<"Assignable", <<"Variable", id>>>>
stmt_expr(e) == <<"Expr", e>>

convert_bin_op(op) ==
    CASE op = "And" -> "BitAnd"
      [] op = "Or" -> "BitOr"
      [] op = "Xor" -> "BitXor"
      [] OTHER -> op

(***************************************************************************)
(* StackLayout (decompiler/passes/stack_to_var.rs): the layout is the      *)
(* counter alone.  An operation that can panic yields ok = FALSE.          *)
(***************************************************************************)
\* StackLayout::get
get(top, i) == top - i

\* StackLayout::push: the id returned; the layout becomes top + 1
push(top) == top

\* a variant of pop that leaves the counter alone
popNothing(top) == top

\* StackLayout::pop: the id returned (the decremented counter); the
\* assertion fails when it is negative
pop(top) == top - 1
pop_ok(top) == top - 1 >= 0

\* make_stack_vars_lvalue: the assignable and the layout left
make_stack_vars_lvalue(top, lv) ==
    CASE lv[1] = "Local" ->
            [result |-> <<"Variable", local(lv[2])>>, top |-> top]
      [] lv[1] = "Stack" ->
            [result |-> <<"Variable", stack(get(top, lv[2]))>>, top |-> top - 1]
      [] lv[1] = "StaticField" ->
            [result |-> <<"Field", None, lv[2]>>, top |-> top]
      [] lv[1] = "InstanceField" ->
            [result |-> <<"Field", Some(mk_variable(stack(get(top, lv[2])))), lv[3]>>,
             top |-> top - 1]

\* make_stack_vars_rvalue: the expression and the layout left
make_stack_vars_rvalue(top, rv) ==
    IF rv[1] = "Constant"
    THEN [result |-> <<"Literal", rv[2]>>, top |-> top]
    ELSE LET l == make_stack_vars_lvalue(top, rv[2])
         IN [result |-> <<"Assignable", l.result>>, top |-> l.top]

Panic(top, msg) == [ok |-> FALSE, top |-> top, stmts |-> <<>>, msg |-> msg]
Done(top, stmts) == [ok |-> TRUE, top |-> top, stmts |-> stmts, msg |-> <<>>]

PopPanic == <<"assertion failed: self.0 >= 0">>

ExecuteInvoke(top, method_index, kind) ==
    LET method_ref == method_refs[method_index]
        args_count == method_ref.parameters
        lo == top - args_count
        args == [i \in 1..args_count |-> mk_variable(stack(lo + i - 1))]
        has_this == kind \in {"Special", "Virtual"}
        top1 == IF has_this THEN pop(lo) ELSE lo
        this_object == IF has_this THEN Some(mk_variable(stack(top1))) ELSE None
        method_call == <<"Invoke", this_object, method_index, args>>
    IN IF has_this /\ ~pop_ok(lo) THEN Panic(lo - 1, PopPanic)
       ELSE IF method_ref.void THEN Done(top1, <<stmt_expr(method_call)>>)
       ELSE Done(top1 + 1,
                 <<stmt_expr(<<"Assign", <<"Variable", stack(push(top1))>>,
                               None, method_call>>)>>)

\* StackLayout::execute: the statements emitted and the layout left
execute(top, instruction) ==
    CASE instruction[1] = "Nop" -> Done(top, <<>>)
      [] instruction[1] = "Load" ->
            LET r == make_stack_vars_rvalue(top, instruction[2])
            IN Done(r.top + 1,
                    <<stmt_expr(<<"Assign", <<"Variable", stack(push(r.top))>>,
                                  None, r.result>>)>>)
      [] instruction[1] = "Store" ->
            LET l == make_stack_vars_lvalue(top, instruction[2])
            IN IF ~pop_ok(l.top) THEN Panic(l.top - 1, PopPanic)
               ELSE Done(pop(l.top),
                         <<stmt_expr(<<"Assign", l.result, None,
                                       mk_variable(stack(pop(l.top)))>>)>>)
      [] instruction[1] = "Arithm" /\ instruction[2][1] = "UnaryOp" ->
            IF ~pop_ok(top) THEN Panic(top - 1, PopPanic)
            ELSE LET v == pop(top)
                     res == push(v)
                 IN Done(v + 1,
                         <<stmt_expr(<<"Assign", <<"Variable", stack(res)>>, None,
                                       <<"UnaryOp", instruction[2][2],
                                         mk_variable(stack(v))>>>>)>>)
      [] instruction[1] = "Arithm" /\ instruction[2][1] = "BinaryOp" ->
            IF ~pop_ok(top) THEN Panic(top - 1, PopPanic)
            ELSE IF ~pop_ok(pop(top)) THEN Panic(top - 2, PopPanic)
            ELSE LET w == pop(top)
                     v == pop(w)
                     res == push(v)
                 IN Done(v + 1,
                         <<stmt_expr(<<"Assign", <<"Variable", stack(res)>>, None,
                                       <<"BinaryOp", convert_bin_op(instruction[2][2]),
                                         mk_variable(stack(v)),
                                         mk_variable(stack(w))>>>>)>>)
      [] instruction[1] = "Arithm" /\ instruction[2][1] = "IncreaseLocal" ->
            Done(top,
                 <<stmt_expr(<<"Assign", <<"Variable", local(instruction[2][2])>>,
                               Some("Add"), <<"Literal", instruction[2][3]>>>>)>>)
      [] instruction[1] = "Invoke" ->
            ExecuteInvoke(top, instruction[2], instruction[3])
      [] instruction[1] = "Return" ->
            IF IsSome(instruction[2])
            THEN IF ~pop_ok(top) THEN Panic(top - 1, PopPanic)
                 ELSE Done(pop(top),
                           <<<<"Return", Some(mk_variable(stack(pop(top))))>>>>)
            ELSE Done(top, <<<<"Return", None>>>>)
      [] OTHER -> Panic(top, <<"not yet implemented">>)

\* StackLayout::cond_to_expr: the condition's expression and the layout left
cond_to_expr(top, cond) ==
    IF cond[1] = "CmpZero"
    THEN IF ~pop_ok(top) THEN Panic(top - 1, PopPanic)
         ELSE Done(pop(top),
                   <<<<"BinaryOp", <<"Cmp", cond[2]>>, mk_variable(stack(pop(top))),
                       <<"Literal", 0>>>>>>)
    ELSE IF ~pop_ok(top) THEN Panic(top - 1, PopPanic)
         ELSE IF ~pop_ok(pop(top)) THEN Panic(top - 2, PopPanic)
         ELSE LET w == pop(top)
                  v == pop(w)
              IN Done(v, <<<<"BinaryOp", <<"Cmp", cond[2]>>, mk_variable(stack(v)),
                             mk_variable(stack(w))>>>>)

\* the loop of transform over the instructions of one block, from the i-th:
\* rets collects the layout right after each Return executed
RECURSIVE ExecuteBlock(_, _, _, _, _)
ExecuteBlock(stmts, i, top, out, rets) ==
    IF i > Len(stmts)
    THEN [ok |-> TRUE, top |-> top, stmts |-> out, rets |-> rets, msg |-> <<>>]
    ELSE CHOOSE result \in
            {IF ~r.ok
             THEN [ok |-> FALSE, top |-> r.top, stmts |-> out, rets |-> rets,
                   msg |-> r.msg]
             ELSE ExecuteBlock(stmts, i + 1, r.top, out \o r.stmts,
                               IF IsReturn(stmts[i])
                                      THEN rets \cup {<<stmts[i][2], top, r.top>>}
                                      ELSE rets)
                : r \in {execute(top, stmts[i])}} : TRUE

\* the terminator of the new BasicBlock, after its statements
LiftTerminator(bb, body) ==
    IF ~body.ok THEN body
    ELSE IF ~IsSome(bb.terminator)
    THEN [ok |-> TRUE, top |-> body.top, rets |-> body.rets, msg |-> <<>>,
          bb |-> [stmts |-> body.stmts, terminator |-> None]]
    ELSE CHOOSE result \in
            {IF ~term.ok
             THEN [ok |-> FALSE, top |-> term.top, stmts |-> body.stmts,
                   rets |-> body.rets, msg |-> term.msg]
             ELSE [ok |-> TRUE, top |-> term.top, rets |-> body.rets, msg |-> <<>>,
                   bb |-> [stmts |-> body.stmts, terminator |-> Some(term.stmts[1])]]
                : term \in {cond_to_expr(body.top, Unwrap(bb.terminator))}} : TRUE

\* the new BasicBlock of transform for block bb entered with layout top
LiftBlock(bb, top) ==
    CHOOSE result \in
        {LiftTerminator(bb, body) : body \in {ExecuteBlock(bb.stmts, 1, top, <<>>, {})}} :
        TRUE

\* Dfs::next: the node popped is returned after each neighbour not yet
\* discovered is marked and pushed
RECURSIVE DfsPush(_, _, _)
DfsPush(d, succs, i) ==
    IF i > Len(succs) THEN d
    ELSE CHOOSE result \in
            {DfsPush(next, succs, i + 1) : next \in
                {IF succs[i] \in d.discovered THEN d
                 ELSE [stack |-> d.stack \o <<succs[i]>>,
                       discovered |-> d.discovered \cup {succs[i]}]}} : TRUE

DfsNext(d, edges) ==
    LET node == d.stack[Len(d.stack)]
        popped == [d EXCEPT !.stack = SubSeq(d.stack, 1, Len(d.stack) - 1)]
    IN [node |-> node, dfs |-> DfsPush(popped, Neighbors(edges, node), 1)]

\* a variant of SameLayout that lets every pair of layouts pass
SameLayoutAlways(stack_at_w, found) == TRUE

\* the comparison of assert_eq!(stack, stack_at_w, ..)
SameLayout(stack_at_w, found) == found = stack_at_w

\* the loop of transform over the successors w of a processed block: the
\* first w whose recorded layout differs from the block's makes it panic
RECURSIVE RecordLayouts(_, _, _, _)
RecordLayouts(at, succs, i, top) ==
    IF i > Len(succs) THEN [ok |-> TRUE, at |-> at, w |-> 0]
    ELSE IF IsSome(at[succs[i] + 1])
    THEN IF SameLayout(Unwrap(at[succs[i] + 1]), top)
         THEN RecordLayouts(at, succs, i + 1, top)
         ELSE [ok |-> FALSE, at |-> at, w |-> succs[i]]
    ELSE CHOOSE result \in
            {RecordLayouts(next, succs, i + 1, top)
                : next \in {[at EXCEPT ![succs[i] + 1] = Some(top)]}} : TRUE

JoinPanic(found, w, expected) ==
    <<"expected stack", found, "at beginning of node", w, "but found", expected>>

(***************************************************************************)
(* Variable propagation (decompiler/passes/var_prop.rs).                   *)
(* A Location is <<basic block, statement index>>, both 0-based.  A map    *)
(* HashMap<Ident, HashSet<Location>> is a function on the idents it holds. *)
(***************************************************************************)
Insert(m, k, v) == (k :> v) @@ m
Lookup(m, k) == IF k \in DOMAIN m THEN m[k] ELSE {}

IsVariableRead(e) == e[1] = "Assignable" /\ e[2][1] = "Variable"

\* the variable reads the default walk (walk_expr, walk_assignable) visits
\* in an expression, in visiting order; the target of an assignment is an
\* Assignable, not an Expr, and is no read
RECURSIVE ExprReads(_), ExprsReads(_)
ExprReads(e) ==
    CASE e[1] = "Literal" -> <<>>
      [] e[1] = "Assignable" ->
            IF e[2][1] = "Variable" THEN <<e[2][2]>>
            ELSE IF IsSome(e[2][2]) THEN ExprReads(Unwrap(e[2][2])) ELSE <<>>
      [] e[1] = "UnaryOp" -> ExprReads(e[3])
      [] e[1] = "BinaryOp" -> ExprReads(e[3]) \o ExprReads(e[4])
      [] e[1] = "Invoke" ->
            (IF IsSome(e[2]) THEN ExprReads(Unwrap(e[2])) ELSE <<>>) \o ExprsReads(e[4])
      [] e[1] = "Assign" ->
            (IF e[2][1] = "Field" /\ IsSome(e[2][2])
             THEN ExprReads(Unwrap(e[2][2])) ELSE <<>>) \o ExprReads(e[4])
ExprsReads(es) == IF es = <<>> THEN <<>> ELSE ExprReads(Head(es)) \o ExprsReads(Tail(es))

\* walk_statement
StatementReads(stmt) ==
    CASE stmt[1] = "Expr" -> ExprReads(stmt[2])
      [] stmt[1] = "Return" -> IF IsSome(stmt[2]) THEN ExprReads(Unwrap(stmt[2])) ELSE <<>>
      [] OTHER -> <<>>

\* update_usages: UsageVisitor over one statement
RECURSIVE CountReads(_, _, _, _)
CountReads(reads, i, relevant_defs, definitions) ==
    IF i > Len(reads) THEN definitions
    ELSE CHOOSE result \in
            {CountReads(reads, i + 1, relevant_defs, counted) : counted \in
                {LET possible_definitions == Lookup(relevant_defs, reads[i])
                     propagatable == Cardinality(possible_definitions) <= 1
                 IN [id \in DOMAIN definitions |->
                        IF id \in possible_definitions
                        THEN [definitions[id] EXCEPT
                                !.uses = @ + 1,
                                !.non_propagatable_uses =
                                    IF propagatable THEN @ ELSE @ + 1]
                        ELSE definitions[id]]}} : TRUE

update_usages(stmt, relevant_defs, definitions) ==
    CHOOSE result \in
        {CountReads(reads, 1, relevant_defs, definitions)
            : reads \in {StatementReads(stmt)}} : TRUE

IsAssign(stmt) == stmt[1] = "Expr" /\ stmt[2][1] = "Assign"
IsVariableAssign(stmt) == IsAssign(stmt) /\ stmt[2][2][1] = "Variable"

\* collect_def_info: the state after the statement at stmt_idx, whose
\* usages were counted into counted; st is [ok, changed, definitions, relevant]
CollectStmt(stmt, def_id, st, counted) ==
    IF IsAssign(stmt) /\ IsSome(stmt[2][3])
    THEN [st EXCEPT !.ok = FALSE]
    ELSE IF IsVariableAssign(stmt)
    THEN LET var == stmt[2][2][2]
             fresh == def_id \notin DOMAIN counted
             base == IF fresh
                     THEN [id |-> def_id, ident |-> var, value |-> stmt[2][4],
                           relevant_defs |-> st.relevant, uses |-> 0,
                           non_propagatable_uses |-> 0]
                     ELSE counted[def_id]
         IN [ok |-> TRUE,
             changed |-> st.changed \/ fresh,
             definitions |-> Insert(counted, def_id,
                                    [base EXCEPT !.relevant_defs = st.relevant]),
             relevant |-> Insert(st.relevant, var, {def_id})]
    ELSE [st EXCEPT !.definitions = counted]

\* collect_def_info: the loop over the statements of block bb_index
RECURSIVE CollectStmts(_, _, _, _)
CollectStmts(stmts, bb_index, stmt_idx, st) ==
    IF stmt_idx >= Len(stmts) \/ ~st.ok THEN st
    ELSE CHOOSE result \in
            {CollectStmts(stmts, bb_index, stmt_idx + 1, next) : next \in
                {CollectStmt(stmts[stmt_idx + 1], <<bb_index, stmt_idx>>, st, counted)
                    : counted \in {update_usages(stmts[stmt_idx + 1], st.relevant,
                                                 st.definitions)}}} : TRUE

\* collect_def_info: the merge of relevant into the entry map of a target
MergeRelevant(target_relevant, relevant) ==
    [var \in DOMAIN target_relevant \cup DOMAIN relevant |->
        Lookup(target_relevant, var) \cup Lookup(relevant, var)]

MergeChanges(target_relevant, relevant) ==
    \E var \in DOMAIN relevant :
        \/ var \notin DOMAIN target_relevant
        \/ ~(relevant[var] \subseteq target_relevant[var])

RECURSIVE MergeTargets(_, _, _, _)
MergeTargets(succs, i, relevant, st) ==
    IF i > Len(succs) THEN st
    ELSE CHOOSE result \in
            {MergeTargets(succs, i + 1, relevant, next) : next \in
                {[changed |-> st.changed
                                \/ MergeChanges(st.entry[succs[i] + 1], relevant),
                  entry |-> [st.entry EXCEPT
                                ![succs[i] + 1] = MergeRelevant(@, relevant)]]}} : TRUE

\* collect_def_info: the state after node v; st is
\* [ok, changed, definitions, relevant_on_bb_entry]
CollectNode(g, v, st) ==
    CHOOSE result \in
        {IF ~body.ok THEN [st EXCEPT !.ok = FALSE]
         ELSE CHOOSE after \in
                {[ok |-> TRUE, changed |-> merged.changed,
                  definitions |-> body.definitions,
                  relevant_on_bb_entry |-> merged.entry]
                    : merged \in
                        {MergeTargets(Neighbors(g.edges, v), 1, body.relevant,
                            [changed |-> body.changed,
                             entry |-> st.relevant_on_bb_entry])}} : TRUE
            : body \in
                {CollectStmts(g.bbs[v + 1].stmts, v, 0,
                    [ok |-> TRUE, changed |-> st.changed,
                     definitions |-> st.definitions,
                     relevant |-> st.relevant_on_bb_entry[v + 1]])}} : TRUE

\* collect_def_info: the loop over the nodes in one round of the fixpoint loop
RECURSIVE CollectNodes(_, _, _)
CollectNodes(g, v, st) ==
    IF v >= Len(g.bbs) \/ ~st.ok THEN st
    ELSE CHOOSE result \in
            {CollectNodes(g, v + 1, next) : next \in {CollectNode(g, v, st)}} : TRUE

\* one round of the loop of collect_def_info, the counters reset first
CollectRound(g, i) ==
    CollectNodes(g, 0,
        [ok |-> TRUE, changed |-> FALSE,
         definitions |-> [id \in DOMAIN i.definitions |->
                            [i.definitions[id] EXCEPT !.uses = 0,
                                                      !.non_propagatable_uses = 0]],
         relevant_on_bb_entry |-> i.relevant_on_bb_entry])

\* a variant of is_propagatable that looks at the number of uses alone
is_propagatable_by_uses(def) == def.uses <= 1

is_propagatable(def) == def.non_propagatable_uses = 0 /\ def.uses <= 1

\* PropagationVisitor::visit_expr with the default walk below it
RECURSIVE PropagateExpr(_, _, _), PropagateExprs(_, _, _)
PropagateOpt(o, ds, relevant) ==
    IF IsSome(o) THEN Some(PropagateExpr(Unwrap(o), ds, relevant)) ELSE o
PropagateAssignable(a, ds, relevant) ==
    IF a[1] = "Field" THEN <<"Field", PropagateOpt(a[2], ds, relevant), a[3]>> ELSE a
PropagateExpr(e, ds, relevant) ==
    IF /\ IsVariableRead(e)
       /\ e[2][2] \in DOMAIN relevant
       /\ Cardinality(relevant[e[2][2]]) = 1
       /\ relevant[e[2][2]] \subseteq DOMAIN ds
    THEN ds[CHOOSE d \in relevant[e[2][2]] : TRUE].value
    ELSE CASE e[1] = "Literal" -> e
           [] e[1] = "Assignable" -> <<"Assignable", PropagateAssignable(e[2], ds, relevant)>>
           [] e[1] = "UnaryOp" -> <<"UnaryOp", e[2], PropagateExpr(e[3], ds, relevant)>>
           [] e[1] = "BinaryOp" ->
                <<"BinaryOp", e[2], PropagateExpr(e[3], ds, relevant),
                  PropagateExpr(e[4], ds, relevant)>>
           [] e[1] = "Invoke" ->
                <<"Invoke", PropagateOpt(e[2], ds, relevant), e[3],
                  PropagateExprs(e[4], ds, relevant)>>
           [] e[1] = "Assign" ->
                <<"Assign", PropagateAssignable(e[2], ds, relevant), e[3],
                  PropagateExpr(e[4], ds, relevant)>>
PropagateExprs(es, ds, relevant) ==
    [k \in 1..Len(es) |-> PropagateExpr(es[k], ds, relevant)]

\* PropagationVisitor::visit_statement (walk_statement)
PropagateStatement(stmt, ds, relevant) ==
    CASE stmt[1] = "Expr" -> <<"Expr", PropagateExpr(stmt[2], ds, relevant)>>
      [] stmt[1] = "Return" -> <<"Return", PropagateOpt(stmt[2], ds, relevant)>>
      [] OTHER -> stmt

\* propagate_in_definitions: the body of the outer loop for one replace_id
ReplaceIn(definitions, replace_id) ==
    LET replace_def == definitions[replace_id]
    IN [def_id \in DOMAIN definitions |->
          IF def_id = replace_id THEN definitions[def_id]
          ELSE [definitions[def_id] EXCEPT
                  !.value = PropagateExpr(@, replace_id :> replace_def,
                                          definitions[def_id].relevant_defs)]]

\* propagate_in_code: the state after the statement at stmt_idx, visited
\* into stmt; st is [ok, stmts, relevant]
PropagateStmt(stmt, def_id, ds, st) ==
    IF IsAssign(stmt) /\ IsSome(stmt[2][3])
    THEN [st EXCEPT !.ok = FALSE]
    ELSE [ok |-> TRUE,
          stmts |-> Append(st.stmts, IF def_id \in DOMAIN ds THEN <<"Nop">> ELSE stmt),
          relevant |-> IF IsVariableAssign(stmt)
                       THEN Insert(st.relevant, stmt[2][2][2], {def_id})
                       ELSE st.relevant]

\* propagate_in_code: the loop over the statements of block bb_index
RECURSIVE PropagateStmts(_, _, _, _, _)
PropagateStmts(stmts, bb_index, stmt_idx, ds, st) ==
    IF stmt_idx >= Len(stmts) \/ ~st.ok THEN st
    ELSE CHOOSE result \in
            {PropagateStmts(stmts, bb_index, stmt_idx + 1, ds, next) : next \in
                {PropagateStmt(stmt, <<bb_index, stmt_idx>>, ds, st)
                    : stmt \in {PropagateStatement(stmts[stmt_idx + 1], ds,
                                                   st.relevant)}}} : TRUE

\* propagate_in_code: the rewritten basic block of node bb_index
PropagateBlock(bb, bb_index, ds, entry) ==
    CHOOSE result \in
        {[ok |-> body.ok,
          bb |-> [stmts |-> body.stmts,
                  terminator |-> PropagateOpt(bb.terminator, ds, body.relevant)]]
            : body \in {PropagateStmts(bb.stmts, bb_index, 0, ds,
                            [ok |-> TRUE, stmts |-> <<>>, relevant |-> entry])}} : TRUE

propagate_in_code(g, ds, relevant_on_bb_entry) ==
    CHOOSE result \in
        {[ok |-> \A v \in 1..Len(g.bbs) : blocks[v].ok,
          cfg |-> [g EXCEPT !.bbs = [v \in 1..Len(g.bbs) |-> blocks[v].bb]]]
            : blocks \in
                {[v \in 1..Len(g.bbs) |->
                    PropagateBlock(g.bbs[v], v - 1, ds, relevant_on_bb_entry[v])]}} :
        TRUE

OpPanic == <<"assertion failed: op.is_none()">>

(***************************************************************************)
(* Inputs.  An instruction list is drawn as a list of instructions whose   *)
(* jumps name the index of their target, <<"JumpTo", condition, index>>;   *)
(* Assemble gives each instruction its pc and each jump the pc of its      *)
(* target.  The index Len(is) stands for an address past the last          *)
(* instruction.                                                            *)
(***************************************************************************)
AsJump(instr) == IF instr[1] = "JumpTo" THEN <<"Jump", instr[2], 0>> ELSE instr

Assemble(is) ==
    LET plain == [i \in 1..Len(is) |-> AsJump(is[i])]
    IN [i \in 1..Len(is) |->
          <<PcOf(plain, i - 1),
            IF is[i][1] = "JumpTo"
            THEN <<"Jump", is[i][2], PcOf(plain, is[i][3])>>
            ELSE is[i]>>]

LoadLocal(i) == <<"Load", <<"LValue", <<"Local", i>>>>>>
LoadConst(n) == <<"Load", <<"Constant", n>>>>
GetField(f) == <<"Load", <<"LValue", <<"InstanceField", -1, f>>>>>>
PutField(f) == <<"Store", <<"InstanceField", -2, f>>>>
StoreLocal(i) == <<"Store", <<"Local", i>>>>
BinaryOp(op) == <<"Arithm", <<"BinaryOp", op>>>>
IfNe == Some(<<"CmpZero", "NE">>)

BinaryOps == {"Add", "Sub", "Mul", "Div", "Rem", "Shl", "Shr", "Ushr", "And", "Or", "Xor"}

\* the general family: loads, stores, invocations, returns and jumps
GeneralInstrs(n) ==
    {LoadLocal(0), LoadConst(7), GetField(1), PutField(1),
     <<"Invoke", 1, "Static">>, <<"Invoke", 2, "Virtual">>,
     <<"Return", None>>, <<"Return", Some(<<>>)>>}
    \cup {<<"JumpTo", c, k>> : c \in {None, IfNe}, k \in 0..n}

\* the propagation family: longer lists of fewer instructions
PropInstrs ==
    {LoadLocal(0), LoadConst(7), StoreLocal(0), BinaryOp("Add"),
     <<"Return", Some(<<>>)>>, <<"JumpTo", None, 2>>}

\* the binary-operation family: Load Li; Load Lj; <binop>; Store Lk
BinopLists ==
    {<<LoadLocal(i), LoadLocal(j), BinaryOp(op), StoreLocal(k)>> :
        i \in 0..MaxLocal, j \in 0..MaxLocal, k \in 0..MaxLocal, op \in BinaryOps}

\* the constructor family: receivers and invocations without arguments
CtorInstrs ==
    {LoadLocal(0), LoadLocal(1), <<"Invoke", 3, "Special">>,
     <<"Invoke", 4, "Special">>, <<"Invoke", 5, "Virtual">>, <<"Return", None>>}

\* the loop family: lists made of blocks.  A block is a return, a jump to
\* the start of a block, or a load of local 0 and a conditional jump on it
\* to the start of a block; the last block is no conditional jump and at
\* most MaxGotos blocks are jumps.
BlockKinds(m) ==
    {<<"Ret">>} \cup {<<kind, k>> : kind \in {"Cond", "Goto"}, k \in 0..(m - 1)}

BlockLen(b) == IF b[1] = "Cond" THEN 2 ELSE 1

\* the index in the list of the first instruction of block k (from 0)
RECURSIVE StartOf(_, _)
StartOf(bs, k) == IF k = 0 THEN 0 ELSE StartOf(bs, k - 1) + BlockLen(bs[k])

ExpandBlocks(bs) ==
    ConcatAll([i \in 1..Len(bs) |->
        CASE bs[i][1] = "Ret" -> <<<<"Return", None>>>>
          [] bs[i][1] = "Goto" -> <<<<"JumpTo", None, StartOf(bs, bs[i][2])>>>>
          [] bs[i][1] = "Cond" ->
                <<LoadLocal(0), <<"JumpTo", IfNe, StartOf(bs, bs[i][2])>>>>])

\* the if family: a test of local 0 and two returns of a literal
IfLists ==
    {<<LoadLocal(0), <<"JumpTo", Some(<<"CmpZero", ord>>), k>>,
       LoadConst(a), <<"Return", Some(<<>>)>>,
       LoadConst(b), <<"Return", Some(<<>>)>>>> :
        ord \in {"EQ", "NE"}, k \in 0..5, a \in 1..2, b \in 1..2}

\* the counted-loop family: a comparison of local 0 with a literal that
\* leaves the loop, an increment, a jump back, and a return after the loop
CountedLists ==
    {<<LoadLocal(0), LoadConst(n), <<"JumpTo", Some(<<"Cmp", ord>>), k>>,
       <<"Arithm", <<"IncreaseLocal", 0, d>>>>, <<"JumpTo", None, j>>,
       <<"Return", None>>>> :
        n \in {10}, ord \in {"GE", "LT"}, k \in {3, 5}, d \in {1, 2}, j \in {0, 3}}

Lists(n, A) == [1..n -> A]

NoInfo == [definitions |-> <<>>, relevant_on_bb_entry |-> <<>>]

NoContext == [dominators |-> <<>>, postdominators |-> <<>>, loops |-> <<>>,
              entry_to_loop_index |-> <<>>, loop_breaks |-> <<>>]

InitWith(is) ==
    /\ code = Assemble(is)
    /\ stage = "transform_method"
    /\ decl = None
    /\ ctx = NoContext
    /\ structured = None
    /\ cfg = NoCfg
    /\ stack_at_bb = <<>>
    /\ new_bbs = <<>>
    /\ dfs = [stack |-> <<>>, discovered |-> {}]
    /\ ret_tops = {}
    /\ post_tops = <<>>
    /\ lifted = NoCfg
    /\ info = NoInfo
    /\ defs = <<>>
    /\ todo = {}
    /\ abort = None

\* exception tables of the Code attribute: none, or one entry
\* <<start_pc, end_pc, handler_pc, catch_type>>
ExceptionTables == {<<>>, <<<<0, 1, 0, 0>>>>}

Init ==
    /\ \E n \in 0..MaxLen : \E is \in Lists(n, GeneralInstrs(n)) : InitWith(is)
    /\ exception_table \in ExceptionTables

InitProp ==
    \E n \in 1..MaxPropLen :
        \E is \in Lists(n, {x \in PropInstrs : x[1] = "JumpTo" => x[3] < n}) :
            /\ InitWith(is)
            /\ exception_table = <<>>

\* the lists of the binary-operation family, alone or before a return
InitBinop ==
    /\ \E is \in BinopLists : \E ret \in {<<>>, <<<<"Return", None>>>>} :
          InitWith(is \o ret)
    /\ exception_table = <<>>

InitCtor ==
    /\ \E n \in 1..MaxCtorLen : \E is \in Lists(n, CtorInstrs) : InitWith(is)
    /\ exception_table = <<>>

InitLoop ==
    /\ \E m \in 1..MaxBlocks :
          \E bs \in {b \in Lists(m, BlockKinds(m)) :
                        /\ b[m][1] /= "Cond"
                        /\ Cardinality({i \in 1..m : b[i][1] = "Goto"}) <= MaxGotos} :
             InitWith(ExpandBlocks(bs))
    /\ exception_table = <<>>

\* the conditional-expression family: a test of local 0 that leaves one of
\* two literals on the stack, and a conditional jump on that value to one
\* of two returns
TernaryLists ==
    {<<LoadLocal(0), <<"JumpTo", IfNe, 4>>,
       LoadConst(a), <<"JumpTo", None, 5>>,
       LoadConst(b),
       <<"JumpTo", Some(<<"CmpZero", ord>>), 7>>,
       <<"Return", None>>, <<"Return", None>>>> :
        ord \in {"EQ", "NE"}, a \in 1..2, b \in 1..2}

\* the jump family: loads of local 0, one jump opcode with the offset of an
\* instruction of the list, and two returns
JumpOpcodes == 153..167

JumpLists ==
    UNION {{[i \in 1..n |-> LoadLocal(0)]
               \o <<<<"Opcode", opcode, (target - n) % 65536>>,
                    <<"Return", None>>, <<"Return", None>>>> :
               opcode \in JumpOpcodes, target \in (0..n) \cup {n + 3, n + 4}} :
           n \in 1..MaxLoads}

InitJump ==
    /\ \E is \in JumpLists : InitWith(is)
    /\ exception_table = <<>>

InitExamples ==
    /\ \E is \in IfLists \cup CountedLists \cup TernaryLists : InitWith(is)
    /\ exception_table = <<>>

(***************************************************************************)
(* decompile(): the passes, one action per pass or per round of a pass's   *)
(* outer loop.                                                             *)
(***************************************************************************)
Abort(msg) ==
    /\ stage' = "aborted"
    /\ abort' = Some(msg)

\* transform_method: parse_code_attribute reads the exception table into the
\* CodeAttribute, disassemble makes the Code from CodeAttribute.code alone
transform_method ==
    /\ stage = "transform_method"
    /\ \E r \in {disassemble(code)} :
          IF r.ok
          THEN /\ code' = r.code
               /\ stage' = "build_cfg"
               /\ UNCHANGED abort
          ELSE /\ Abort(r.msg)
               /\ UNCHANGED code
    /\ UNCHANGED <<cfg, stack_at_bb, new_bbs, dfs, ret_tops, post_tops,
                   lifted, info, defs, todo, later>>

\* build_cfg
build_cfg ==
    /\ stage = "build_cfg"
    /\ UNCHANGED later
    /\ IF BuildCfgPanics(code)
       THEN /\ Abort(<<"build_cfg">>)
            /\ UNCHANGED cfg
       ELSE /\ \E g \in {BuildCfg(code)} : cfg' = g
            /\ stage' = "transform"
            /\ UNCHANGED abort
    /\ UNCHANGED <<code, stack_at_bb, new_bbs, dfs, ret_tops, post_tops,
                   lifted, info, defs, todo>>

\* transform, up to its loop
transform_begin ==
    /\ stage = "transform"
    /\ UNCHANGED later
    /\ stack_at_bb' = [v \in 1..Len(cfg.bbs) |-> IF v = 1 THEN Some(0) ELSE None]
    /\ new_bbs' = [v \in 1..Len(cfg.bbs) |-> EmptyBasicBlock]
    /\ post_tops' = [v \in 1..Len(cfg.bbs) |-> None]
    /\ dfs' = [stack |-> <<0>>, discovered |-> {0}]
    /\ stage' = "dfs"
    /\ UNCHANGED <<code, cfg, ret_tops, lifted, info, defs, todo, abort>>

\* transform: one round of the loop while let Some(v) = dfs.next(..)
transform_block ==
    /\ stage = "dfs"
    /\ UNCHANGED later
    /\ dfs.stack /= <<>>
    /\ \E nx \in {DfsNext(dfs, cfg.edges)} :
       \E r \in {IF IsSome(stack_at_bb[nx.node + 1])
                 THEN LiftBlock(cfg.bbs[nx.node + 1], Unwrap(stack_at_bb[nx.node + 1]))
                 ELSE Panic(0, <<"called Option::unwrap() on a None value">>)} :
       \E rec \in {RecordLayouts(stack_at_bb, Neighbors(cfg.edges, nx.node), 1, r.top)} :
          /\ dfs' = nx.dfs
          /\ IF ~r.ok
             THEN /\ Abort(r.msg)
                  /\ UNCHANGED <<new_bbs, stack_at_bb, post_tops, ret_tops>>
             ELSE /\ new_bbs' = [new_bbs EXCEPT ![nx.node + 1] = r.bb]
                  /\ ret_tops' = ret_tops \cup r.rets
                  /\ post_tops' = [post_tops EXCEPT ![nx.node + 1] = Some(r.top)]
                  /\ stack_at_bb' = rec.at
                  /\ IF rec.ok
                     THEN UNCHANGED <<stage, abort>>
                     ELSE Abort(JoinPanic(r.top, rec.w, Unwrap(stack_at_bb[rec.w + 1])))
    /\ UNCHANGED <<code, cfg, lifted, info, defs, todo>>

\* transform: the Cfg returned once the Dfs is exhausted; propagate begins
\* collect_def_info with an empty DefinitionInfo
transform_end ==
    /\ stage = "dfs"
    /\ UNCHANGED later
    /\ dfs.stack = <<>>
    /\ lifted' = [cfg EXCEPT !.bbs = new_bbs]
    /\ cfg' = [cfg EXCEPT !.bbs = new_bbs]
    /\ info' = [definitions |-> <<>>,
                relevant_on_bb_entry |-> [v \in 1..Len(cfg.bbs) |-> <<>>]]
    /\ stage' = "collect"
    /\ UNCHANGED <<code, stack_at_bb, new_bbs, dfs, ret_tops, post_tops,
                   defs, todo, abort>>

\* collect_def_info: one round of its loop; after the round that changes
\* nothing propagate filters the propagatable definitions
collect_def_info ==
    /\ stage = "collect"
    /\ UNCHANGED later
    /\ \E r \in {CollectRound(cfg, info)} :
          IF ~r.ok
          THEN /\ Abort(OpPanic)
               /\ UNCHANGED <<info, defs, todo>>
          ELSE /\ info' = [definitions |-> r.definitions,
                           relevant_on_bb_entry |-> r.relevant_on_bb_entry]
               /\ UNCHANGED abort
               /\ IF r.changed
                  THEN UNCHANGED <<stage, defs, todo>>
                  ELSE /\ stage' = "in_definitions"
                       /\ defs' = [id \in {d \in DOMAIN r.definitions :
                                            is_propagatable(r.definitions[d])}
                                     |-> r.definitions[id]]
                       /\ todo' = {d \in DOMAIN r.definitions :
                                      is_propagatable(r.definitions[d])}
    /\ UNCHANGED <<code, cfg, stack_at_bb, new_bbs, dfs, ret_tops, post_tops, lifted>>

\* propagate_in_definitions: one round of its outer loop, for the key the
\* HashMap's iteration yields next
propagate_in_definitions_round ==
    /\ stage = "in_definitions"
    /\ UNCHANGED later
    /\ todo /= {}
    /\ \E replace_id \in todo :
          /\ defs' = ReplaceIn(defs, replace_id)
          /\ todo' = todo \ {replace_id}
    /\ UNCHANGED <<code, stage, cfg, stack_at_bb, new_bbs, dfs, ret_tops, post_tops,
                   lifted, info, abort>>

\* propagate_in_code, and the return of propagate
propagate_in_code_all ==
    /\ stage = "in_definitions"
    /\ UNCHANGED later
    /\ todo = {}
    /\ \E r \in {propagate_in_code(cfg, defs, info.relevant_on_bb_entry)} :
          IF r.ok
          THEN /\ cfg' = r.cfg
               /\ stage' = "propagated"
               /\ UNCHANGED abort
          ELSE /\ Abort(OpPanic)
               /\ UNCHANGED cfg
    /\ UNCHANGED <<code, stack_at_bb, new_bbs, dfs, ret_tops, post_tops,
                   lifted, info, defs, todo>>

(***************************************************************************)
(* decompiler/passes/constructors.rs                                       *)
(***************************************************************************)
This == <<"This">>

\* the pattern of visit_statement: Statement::Expr(Expr::Invoke(Some(expr), ..))
IsReceiverInvoke(stmt) ==
    /\ stmt[1] = "Expr"
    /\ stmt[2][1] = "Invoke"
    /\ IsSome(stmt[2][2])

\* the assertion of visit_statement fails
VisitPanics(stmt) == IsReceiverInvoke(stmt) /\ Unwrap(stmt[2][2]) /= This

ConstructorPanic == <<"constructor call not on this!">>

\* ConstructorVisitor::visit_statement, when its assertion holds
visit_statement(class_name, stmt) ==
    IF IsReceiverInvoke(stmt) /\ method_refs[stmt[2][3]].name = "<init>"
    THEN IF class_name = class_refs[method_refs[stmt[2][3]].class_ref]
         THEN <<"ThisCall", stmt[2][4]>>
         ELSE <<"SuperCall", stmt[2][4]>>
    ELSE stmt

\* code.map(|stmts| stmts.iter_mut().for_each(|stmt| visitor.visit_statement(stmt)))
VisitCode(class_name, g) ==
    [g EXCEPT !.bbs = [v \in 1..Len(g.bbs) |->
        [g.bbs[v] EXCEPT !.stmts =
            [i \in 1..Len(g.bbs[v].stmts) |->
                visit_statement(class_name, g.bbs[v].stmts[i])]]]]

VisitCodePanics(g) ==
    \E v \in 1..Len(g.bbs) : \E i \in 1..Len(g.bbs[v].stmts) :
        VisitPanics(g.bbs[v].stmts[i])

\* handle_constructors, for the declaration of the method
handle_constructors ==
    /\ stage = "propagated"
    /\ \E name \in MethodNames :
          IF name = "<init>"
          THEN IF VisitCodePanics(cfg)
               THEN /\ Abort(ConstructorPanic)
                    /\ UNCHANGED <<cfg, decl>>
               ELSE /\ \E g \in {VisitCode(unit_name, cfg)} : cfg' = g
                    /\ decl' = Some([kind |-> "Constructor", name |-> name])
                    /\ stage' = "structure"
                    /\ UNCHANGED abort
          ELSE /\ decl' = Some([kind |-> "Method", name |-> name])
               /\ stage' = "structure"
               /\ UNCHANGED <<cfg, abort>>
    /\ UNCHANGED <<code, stack_at_bb, new_bbs, dfs, ret_tops, post_tops,
                   lifted, info, defs, todo, exception_table, ctx, structured>>

(***************************************************************************)
(* Dominators (decompiler/cfg.rs).  simple_fast gives an immediate         *)
(* dominator to the nodes its root reaches, the root excepted.             *)
(***************************************************************************)
\* the arcs simple_fast walks: the edges, reversed for the postdominators
Arcs(g, post) ==
    {IF post THEN <<e[2], e[1]>> ELSE <<e[1], e[2]>> : e \in Range(g.edges)}

\* the nodes with a path of arcs from the set S (S included)
RECURSIVE Reach(_, _)
Reach(A, S) ==
    CHOOSE result \in
        {IF next = S THEN S ELSE Reach(A, next)
            : next \in {S \cup {a[2] : a \in {x \in A : x[1] \in S}}}} : TRUE

\* the nodes that are on every path of arcs from root to n
DominatorsOf(A, root, n) ==
    {d \in Reach(A, {root}) :
        \/ d = n
        \/ n \notin Reach({a \in A : a[1] /= d /\ a[2] /= d}, {root} \ {d})}

\* Cfg::compute_dominators
compute_dominators(g, post) ==
    LET root == IF post THEN g.exit_point ELSE g.entry_point
        A == Arcs(g, post)
    IN CHOOSE result \in
        {[root |-> root, reversed |-> post,
          map |-> [n \in DOMAIN doms \ {root} |->
                     CHOOSE d \in doms[n] \ {n} :
                        \A d2 \in doms[n] \ {n} : d2 \in doms[d]]]
            : doms \in {[n \in Reach(A, {root}) |-> DominatorsOf(A, root, n)]}}
        : TRUE

\* Dominators::get_immediate
get_immediate(dom, node) ==
    IF node \in DOMAIN dom.map THEN Some(dom.map[node]) ELSE None

\* Dominators::is_for
RECURSIVE is_for(_, _, _)
is_for(dom, node, check) ==
    IF check = node THEN TRUE
    ELSE IF ~IsSome(get_immediate(dom, check)) THEN FALSE
    ELSE IF Unwrap(get_immediate(dom, check)) = node THEN TRUE
    ELSE is_for(dom, node, Unwrap(get_immediate(dom, check)))

\* Dominators::get_all
RECURSIVE get_all(_, _)
get_all(dom, node) ==
    IF IsSome(get_immediate(dom, node))
    THEN <<node>> \o get_all(dom, Unwrap(get_immediate(dom, node)))
    ELSE <<node>>

Reverse(q) == [i \in 1..Len(q) |-> q[Len(q) + 1 - i]]

\* Dominators::get_common, for the set of nodes handed to it
get_common(dom, nodes) ==
    IF nodes = {} THEN None
    ELSE LET paths == {Reverse(get_all(dom, n)) : n \in nodes}
             first == CHOOSE path \in paths : TRUE
             agree == {k \in 1..Len(first) :
                         \A j \in 1..k : \A path \in paths :
                            j <= Len(path) /\ path[j] = first[j]}
         IN IF agree = {} THEN None
            ELSE Some(first[CHOOSE k \in agree : \A j \in agree : j <= k])

(***************************************************************************)
(* decompiler/passes/structure.rs                                          *)
(***************************************************************************)
\* create_context
create_context ==
    /\ stage = "structure"
    /\ \E d \in {compute_dominators(cfg, FALSE)} :
       \E pd \in {compute_dominators(cfg, TRUE)} :
          ctx' = [NoContext EXCEPT !.dominators = d, !.postdominators = pd]
    /\ stage' = "collect_loops"
    /\ UNCHANGED <<code, cfg, stack_at_bb, new_bbs, dfs, ret_tops, post_tops,
                   lifted, info, defs, todo, abort, exception_table, decl,
                   structured>>

\* all_nodes of cfg_to_structured
AllNodes(g) == 0..(Len(g.bbs) - 1)

\* compute_strongly_connected_components: the components of the graph
\* filtered to the nodes of filter; their order is chosen where they are
\* iterated over
compute_strongly_connected_components(g, filter) ==
    LET A == {a \in Arcs(g, FALSE) : a[1] \in filter /\ a[2] \in filter}
        back == {<<a[2], a[1]>> : a \in A}
    IN {Reach(A, {n}) \cap Reach(back, {n}) : n \in filter}

\* is_scc_loop
is_scc_loop(g, nodes) ==
    IF Cardinality(nodes) = 1
    THEN \E n \in nodes : <<n, n>> \in Arcs(g, FALSE)
    ELSE nodes /= {}

MultipleEntriesPanic(nodes, entry_points) ==
    <<"The loop consisting of the basic blocks has multiple entry points",
      nodes, entry_points>>

UnwrapPanic == <<"called Option::unwrap() on a None value">>

\* find_best_break_block, before its unwrap
find_best_break_block(c, exits) == get_common(c.postdominators, exits)

\* a variant of continue_edges without the test that the source is a node
\* of the loop
continue_edges_all(A, nodes, entry_point) ==
    {a \in A : a[2] = entry_point}

\* find_entries_and_exits: the edges into the entry point from the nodes of
\* the loop
continue_edges(A, nodes, entry_point) ==
    {a \in A : a[2] = entry_point /\ a[1] \in nodes}

\* find_entries_and_exits: the Loop, or the panic
find_entries_and_exits(c, g, nodes) ==
    LET A == Arcs(g, FALSE)
        entry_points == {n \in nodes : \E a \in A : a[2] = n /\ a[1] \notin nodes}
        exit_points == {a[2] : a \in {x \in A : x[1] \in nodes /\ x[2] \notin nodes}}
        entry_point == CHOOSE n \in entry_points : TRUE
        brk == find_best_break_block(c, exit_points)
        break_point == Unwrap(brk)
    IN IF Cardinality(entry_points) > 1
       THEN [ok |-> FALSE, msg |-> MultipleEntriesPanic(nodes, entry_points)]
       ELSE IF entry_points = {} THEN [ok |-> FALSE, msg |-> UnwrapPanic]
       ELSE IF ~IsSome(brk) THEN [ok |-> FALSE, msg |-> UnwrapPanic]
       ELSE [ok |-> TRUE, msg |-> <<>>,
             lupe |-> [nodes |-> nodes,
                       entry |-> entry_point,
                       continue_edges |-> continue_edges(A, nodes, entry_point),
                       exits |-> exit_points,
                       break_point |-> break_point,
                       break_edges |->
                           {a \in A : /\ a[2] = break_point
                                      /\ is_for(c.dominators, entry_point, break_point)}]]

\* store_loop_in_context
store_loop_in_context(c, lupe) ==
    [c EXCEPT !.entry_to_loop_index = Insert(@, lupe.entry, Len(c.loops)),
              !.loop_breaks = [j \in lupe.break_edges |-> Len(c.loops)] @@ @,
              !.loops = Append(@, lupe)]

\* collect_loops: the contexts it can leave, or its panics, one for each
\* topological order kosaraju_scc can give the components in.  Components
\* that are no loops are skipped, so only the order of the loops matters.
RECURSIVE collect_loops(_, _, _)
RECURSIVE CollectSccs(_, _, _, _)
collect_loops(c, g, filter) ==
    IF filter = {} THEN {[ok |-> TRUE, msg |-> <<>>, ctx |-> c]}
    ELSE CollectSccs(c, g, filter,
                     {nodes \in compute_strongly_connected_components(g, filter) :
                         is_scc_loop(g, nodes)})

CollectSccs(c, g, filter, sccs) ==
    IF sccs = {} THEN {[ok |-> TRUE, msg |-> <<>>, ctx |-> c]}
    ELSE LET A == {a \in Arcs(g, FALSE) : a[1] \in filter /\ a[2] \in filter}
             first == {nodes \in sccs :
                          \A other \in sccs \ {nodes} : Reach(A, other) \cap nodes = {}}
         IN UNION {
              UNION {IF ~f.ok THEN {[ok |-> FALSE, msg |-> f.msg, ctx |-> c]}
                     ELSE UNION {IF ~inner.ok THEN {inner}
                                 ELSE CollectSccs(inner.ctx, g, filter, sccs \ {nodes})
                                   : inner \in collect_loops(store_loop_in_context(c, f.lupe),
                                                             g, nodes \ {f.lupe.entry})}
                       : f \in {find_entries_and_exits(c, g, nodes)}}
                : nodes \in first}

\* cfg_to_structured: collect_loops for all nodes
collect_loops_all ==
    /\ stage = "collect_loops"
    /\ \E r \in collect_loops(ctx, cfg, AllNodes(cfg)) :
          IF r.ok
          THEN /\ ctx' = r.ctx
               /\ stage' = "structure_from_to"
               /\ UNCHANGED abort
          ELSE /\ Abort(r.msg)
               /\ UNCHANGED ctx
    /\ UNCHANGED <<code, cfg, stack_at_bb, new_bbs, dfs, ret_tops, post_tops,
                   lifted, info, defs, todo, exception_table, decl, structured>>

\* translate_block: the Map outgoing.  edges_directed yields the edges added
\* last first and insert overwrites, so a weight keeps the target of the
\* first edge with that weight
OutgoingSwapped(g, cur) ==
    LET out == {i \in 1..Len(g.edges) : g.edges[i][1] = cur}
    IN [w \in {~g.edges[i][3] : i \in out} |->
          g.edges[CHOOSE i \in out :
                     /\ g.edges[i][3] = ~w
                     /\ \A j \in out : g.edges[j][3] = ~w => i <= j][2]]
Outgoing(g, cur) ==
    LET out == {i \in 1..Len(g.edges) : g.edges[i][1] = cur}
    IN [w \in {g.edges[i][3] : i \in out} |->
          g.edges[CHOOSE i \in out :
                     /\ g.edges[i][3] = w
                     /\ \A j \in out : g.edges[j][3] = w => i <= j][2]]

SOk(items, next) == [ok |-> TRUE, msg |-> <<>>, items |-> items, next |-> next]
SPanic(msg) == [ok |-> FALSE, msg |-> msg, items |-> <<>>, next |-> 0]

\* a call chain of structure_from_to deeper than MaxDepth: no return
NoReturn == <<"no return">>

\* structure_from_to, translate_block, handle_jump: the Structured items
\* pushed and the Label returned, or the panic
RECURSIVE structure_from_to(_, _, _, _, _)
RECURSIVE translate_block(_, _, _, _, _)
RECURSIVE handle_jump(_, _, _, _, _)
RECURSIVE Branch(_, _, _, _, _, _)

structure_from_to(c, g, cur, stop, depth) ==
    IF cur = stop \/ cur = g.exit_point THEN SOk(<<>>, cur)
    ELSE IF depth = 0 THEN SPanic(NoReturn)
    ELSE CHOOSE result \in
        {IF ~t.ok THEN t
         ELSE CHOOSE inner \in
                {IF ~rest.ok THEN rest ELSE SOk(t.items \o rest.items, rest.next)
                    : rest \in {structure_from_to(c, g, t.next, stop, depth - 1)}} : TRUE
            : t \in {translate_block(c, g, cur, stop, depth - 1)}} : TRUE

\* translate_block: handle_jump on one edge of a condition, followed by
\* structure_from_to up to the join point
Branch(c, g, jump, stop, join, depth) ==
    CHOOSE result \in
        {IF ~h.ok THEN h
         ELSE CHOOSE inner \in
                {IF ~rest.ok THEN rest ELSE SOk(h.items \o rest.items, rest.next)
                    : rest \in {structure_from_to(c, g, h.next, join, depth)}} : TRUE
            : h \in {handle_jump(c, g, jump, stop, depth)}} : TRUE

translate_block(c, g, cur, stop, depth) ==
    LET outgoing == Outgoing(g, cur)
        join == get_immediate(c.postdominators, cur)
    IN IF IsSome(g.bbs[cur + 1].terminator)
       THEN IF Cardinality(DOMAIN outgoing) /= 2
            THEN SPanic(<<"basic block (with condition) should have 2 successors", cur>>)
            ELSE IF ~IsSome(join) THEN SPanic(UnwrapPanic)
            ELSE IF ~is_for(c.postdominators, stop, Unwrap(join))
            THEN SPanic(<<"stop point doesn't postdominate the join point",
                          stop, Unwrap(join)>>)
            ELSE CHOOSE result \in
                {IF ~then.ok THEN then
                 ELSE CHOOSE inner \in
                        {IF ~els.ok THEN els
                         ELSE SOk(<<<<"BasicBlock", cur>>,
                                    <<"If", cur, then.items, els.items>>>>, Unwrap(join))
                            : els \in {Branch(c, g, <<cur, outgoing[FALSE]>>, stop,
                                              Unwrap(join), depth)}} : TRUE
                    : then \in {Branch(c, g, <<cur, outgoing[TRUE]>>, stop,
                                       Unwrap(join), depth)}} : TRUE
       ELSE IF Cardinality(DOMAIN outgoing) > 1
            THEN SPanic(<<"basic block has too many successors", cur>>)
            ELSE IF DOMAIN outgoing = {}
            THEN SPanic(<<"basic block has no outgoing edges", cur>>)
            ELSE CHOOSE result \in
                {IF ~h.ok THEN h ELSE SOk(<<<<"BasicBlock", cur>>>> \o h.items, h.next)
                    : h \in {handle_jump(c, g,
                                         <<cur, outgoing[CHOOSE w \in DOMAIN outgoing : TRUE]>>,
                                         stop, depth)}} : TRUE

handle_jump(c, g, jump, stop, depth) ==
    LET next == jump[2]
        loop_index == IF next \in DOMAIN c.entry_to_loop_index
                      THEN c.entry_to_loop_index[next]
                      ELSE c.loop_breaks[jump]
        lupe == c.loops[loop_index + 1]
    IN IF ~is_for(c.postdominators, stop, next)
       THEN SPanic(<<"stop point doesn't postdominate next", stop, next>>)
       ELSE IF next \in DOMAIN c.entry_to_loop_index
       THEN IF jump \in lupe.continue_edges
            THEN SOk(<<<<"Continue", loop_index>>>>, stop)
            ELSE IF ~is_for(c.postdominators, stop, lupe.break_point)
            THEN SPanic(<<"stop point doesn't postdominate brk", stop, lupe.break_point>>)
            ELSE CHOOSE result \in
                {IF ~body.ok THEN body
                 ELSE SOk(<<<<"Loop", loop_index, body.items>>>>, lupe.break_point)
                    : body \in {structure_from_to(c, g, next, lupe.break_point, depth)}} : TRUE
       ELSE IF jump \in DOMAIN c.loop_breaks
       THEN SOk(<<<<"Break", loop_index>>>>, lupe.break_point)
       ELSE SOk(<<>>, next)

loop_label(index) == <<"loop", index>>

\* structured_to_statement
RECURSIVE structured_to_statement(_, _)
structured_to_statement(g, items) ==
    IF items = <<>> THEN <<>>
    ELSE CHOOSE result \in
        {(CASE stmt[1] = "BasicBlock" -> g.bbs[stmt[2] + 1].stmts
            [] stmt[1] = "If" ->
                 <<<<"If", Unwrap(g.bbs[stmt[2] + 1].terminator),
                     structured_to_statement(g, stmt[3]),
                     Some(structured_to_statement(g, stmt[4]))>>>>
            [] stmt[1] = "Loop" ->
                 <<<<"While", Some(loop_label(stmt[2])), <<"Literal", TRUE>>,
                     structured_to_statement(g, stmt[3])>>>>
            [] stmt[1] = "Break" -> <<<<"Break", Some(loop_label(stmt[2]))>>>>
            [] stmt[1] = "Continue" -> <<<<"Continue", Some(loop_label(stmt[2]))>>>>)
         \o structured_to_statement(g, Tail(items))
            : stmt \in {Head(items)}} : TRUE

\* structure_cfg, after collect_loops: the Block of the method
structure_cfg ==
    /\ stage = "structure_from_to"
    /\ \E r \in {structure_from_to(ctx, cfg, cfg.entry_point, cfg.exit_point, MaxDepth)} :
          IF r.ok
          THEN /\ \E b \in {structured_to_statement(cfg, r.items)} :
                     structured' = Some(b)
               /\ stage' = "done"
               /\ UNCHANGED abort
          ELSE /\ Abort(r.msg)
               /\ UNCHANGED structured
    /\ UNCHANGED <<code, cfg, stack_at_bb, new_bbs, dfs, ret_tops, post_tops,
                   lifted, info, defs, todo, exception_table, decl, ctx>>

Next ==
    \/ transform_method
    \/ build_cfg
    \/ transform_begin
    \/ transform_block
    \/ transform_end
    \/ collect_def_info
    \/ propagate_in_definitions_round
    \/ propagate_in_code_all
    \/ handle_constructors
    \/ create_context
    \/ collect_loops_all
    \/ structure_cfg

Spec == Init /\ [][Next]_vars
SpecProp == InitProp /\ [][Next]_vars
SpecBinop == InitBinop /\ [][Next]_vars
SpecCtor == InitCtor /\ [][Next]_vars
SpecLoop == InitLoop /\ [][Next]_vars
SpecJump == InitJump /\ [][Next]_vars
SpecExamples == InitExamples /\ [][Next]_vars

(***************************************************************************)
(* Properties of build_cfg.  They are stated on the state right after      *)
(* build_cfg returned, where cfg holds the graph over instruction blocks.  *)
(***************************************************************************)
CfgBuilt == stage = "transform"

Nodes(g) == 0..Len(g.bbs) - 1

\* the nodes of g that are basic blocks of the method (not entry, not exit)
BlockNodes(g) == Nodes(g) \ {g.entry_point, g.exit_point}

\* the nodes with a directed path into the set S (S included)
RECURSIVE ReachesTo(_, _)
ReachesTo(edges, S) ==
    CHOOSE result \in
        {IF next = S THEN S ELSE ReachesTo(edges, next)
            : next \in {S \cup {e[1] : e \in {x \in Range(edges) : x[2] \in S}}}} : TRUE

\* the last instruction of block v, as it stood in the instruction list
LastInstruction(v) ==
    LET block == Blocks(code, SortedSeq(bb_starts(code)))[v + 1]
    IN block[Len(block)][2]

\* C1: every node of the graph built by build_cfg (entry, every basic
\* block, exit) has a directed path to exit_point.
C1_EveryNodeReachesExit ==
    CfgBuilt => Nodes(cfg) \subseteq ReachesTo(cfg.edges, {cfg.exit_point})

\* C2: the graph built by build_cfg has one entry and one exit node, two
\* nodes added to the basic blocks; the exit node has no outgoing edge; and
\* every block that got no edge from its last instruction (it ends in
\* Return) has exactly one outgoing edge, labelled false, to the exit node.
C2_ExitClosesGraph ==
    CfgBuilt =>
        /\ cfg.entry_point \in Nodes(cfg)
        /\ cfg.exit_point \in Nodes(cfg)
        /\ cfg.entry_point /= cfg.exit_point
        /\ Cardinality(BlockNodes(cfg)) = Cardinality(bb_starts(code))
        /\ OutEdges(cfg.edges, cfg.exit_point) = <<>>
        /\ \A v \in BlockNodes(cfg) :
              IsReturn(LastInstruction(v)) =>
                  OutEdges(cfg.edges, v) = <<<<v, cfg.exit_point, FALSE>>>>

\* a graph was built in which a block that is not the last one ends in Return
C2_Witness ==
    /\ CfgBuilt
    /\ \E v \in BlockNodes(cfg) :
          /\ v + 1 \in BlockNodes(cfg)
          /\ IsReturn(LastInstruction(v))
          /\ <<v, cfg.exit_point, FALSE>> \in Range(cfg.edges)

\* C3: in the graph built by build_cfg a block has a terminator iff its
\* last instruction was a conditional Jump; such a block has exactly two
\* outgoing edges, the false edge to the next block in instruction order and
\* the true edge to the block that starts at the jump address, and the Jump
\* is not among its statements; a block without a terminator has at most
\* one outgoing edge.
C3_TerminatorEdges ==
    CfgBuilt =>
        \A v \in BlockNodes(cfg) :
            LET last == LastInstruction(v)
                bb == cfg.bbs[v + 1]
                out == OutEdges(cfg.edges, v)
            IN /\ IsSome(bb.terminator) <=> (IsJump(last) /\ IsSome(last[2]))
               /\ IsSome(bb.terminator) =>
                    /\ Len(out) = 2
                    /\ \E e \in Range(out) :
                          e[3] = FALSE /\ e[2] = v + 1 /\ e[2] \in BlockNodes(cfg)
                    /\ \E e \in Range(out) :
                          /\ e[3] = TRUE
                          /\ e[2] \in BlockNodes(cfg)
                          /\ code[SortedSeq(bb_starts(code))[e[2] + 1] + 1][1] = last[3]
                    /\ \A i \in 1..Len(bb.stmts) : ~IsJump(bb.stmts[i])
               /\ ~IsSome(bb.terminator) => Len(out) <= 1

(***************************************************************************)
(* Properties of the lifter.  They are stated on the states where          *)
(* transform returned (lifted holds its result) or where it panicked.      *)
(***************************************************************************)
LiftingReturned == lifted /= NoCfg

\* the identifiers a lifted statement names: those it reads and the
\* variable it assigns
StatementIdents(stmt) ==
    Range(StatementReads(stmt))
    \cup (IF IsVariableAssign(stmt) THEN {stmt[2][2][2]} ELSE {})

\* the identifiers named in the statements and terminators of a graph
CfgIdents(g) ==
    UNION {UNION {StatementIdents(g.bbs[v].stmts[i]) : i \in 1..Len(g.bbs[v].stmts)}
            \cup (IF IsSome(g.bbs[v].terminator)
                  THEN Range(ExprReads(Unwrap(g.bbs[v].terminator))) ELSE {})
                : v \in 1..Len(g.bbs)}

\* C4: when the lifter returns, every stack variable stack_k named in an
\* emitted statement or terminator has k >= 0, whatever the instruction
\* kinds (Invoke, field loads and stores included).
C4_NoNegativeStackVariable ==
    LiftingReturned =>
        \A ident \in CfgIdents(lifted) : ident[1] = "stack" => ident[2] >= 0

\* C5: when the lifter returns, the StackLayout top was 0 right after every
\* Return it executed.
C5_ZeroAfterReturn ==
    LiftingReturned => \A r \in ret_tops : r[3] = 0

\* C5, as the code has it: a Return of a value pops that value, so the top
\* after it is one less than before it and not negative; a Return of
\* nothing leaves the top as it was.  Nothing makes the top 0.
C5_ReturnPopsItsValue ==
    LiftingReturned =>
        \A r \in ret_tops :
            IF IsSome(r[1]) THEN r[3] = r[2] - 1 /\ r[3] >= 0 ELSE r[3] = r[2]

\* the lifter returned after a Return of a value that left a value on the stack
C5_Witness ==
    /\ LiftingReturned
    /\ \E r \in ret_tops : IsSome(r[1]) /\ r[2] = 2 /\ r[3] = 1

\* the nodes with a directed path from the set S (S included)
RECURSIVE ReachableFrom(_, _)
ReachableFrom(edges, S) ==
    CHOOSE result \in
        {IF next = S THEN S ELSE ReachableFrom(edges, next)
            : next \in {S \cup {e[2] : e \in {x \in Range(edges) : x[1] \in S}}}} : TRUE

IsJoinPanic(a) == IsSome(a) /\ Unwrap(a)[1] = "expected stack"

\* C6: while and after the lifter runs, every edge that leaves a processed
\* block leads to a block whose recorded entry layout equals the layout
\* after the processed block; when they differ the lifter has aborted, and
\* its message names the successor, the layout found and the one recorded.
\* When the lifter returns the processed blocks are those reachable from
\* block 0, so all edges from them into one block carry the same height.
C6_JoinLayoutsAgree ==
    LET processed == {v \in Nodes(cfg) : post_tops /= <<>> /\ IsSome(post_tops[v + 1])}
        mismatch == {e \in Range(cfg.edges) :
                        e[1] \in processed /\ stack_at_bb[e[2] + 1] /= post_tops[e[1] + 1]}
    IN /\ stage = "dfs" => mismatch = {}
       /\ mismatch /= {} => IsJoinPanic(abort)
       /\ IsJoinPanic(abort) =>
            \E e \in mismatch :
                abort = Some(JoinPanic(Unwrap(post_tops[e[1] + 1]), e[2],
                                       Unwrap(stack_at_bb[e[2] + 1])))
       /\ LiftingReturned =>
            /\ processed = ReachableFrom(cfg.edges, {0})
            /\ \A e1 \in Range(cfg.edges), e2 \in Range(cfg.edges) :
                  (e1[2] = e2[2] /\ e1[1] \in processed /\ e2[1] \in processed)
                      => post_tops[e1[1] + 1] = post_tops[e2[1] + 1]

\* the lifter aborted at an edge into a block recorded with another layout
C6_Witness ==
    /\ IsJoinPanic(abort)
    /\ \E e \in Range(cfg.edges) :
          /\ IsSome(post_tops[e[1] + 1])
          /\ IsSome(stack_at_bb[e[2] + 1])
          /\ post_tops[e[1] + 1] /= stack_at_bb[e[2] + 1]
          /\ Unwrap(abort)[4] = e[2]

(***************************************************************************)
(* Properties of lifting followed by propagation.  They are stated on the  *)
(* states where propagate returned: lifted holds the graph it was given,   *)
(* cfg the graph it returned, info the converged DefinitionInfo.           *)
(***************************************************************************)
Propagated == stage = "propagated"

RECURSIVE NonNop(_)
NonNop(stmts) ==
    IF stmts = <<>> THEN <<>>
    ELSE (IF Head(stmts) = <<"Nop">> THEN <<>> ELSE <<Head(stmts)>>) \o NonNop(Tail(stmts))

\* the statements of a graph that are not Nop, block after block
Emitted(g) == ConcatAll([v \in 1..Len(g.bbs) |-> NonNop(g.bbs[v].stmts)])

\* C7: Load(Local 0); Load(Literal 7); Store(InstanceField{-2, F}) is
\* turned by lifting and propagation into the single statement
\* local_0.F = 7: the receiver is the value pushed first, the value is 7.
C7_FieldStoreOfLiteral ==
    (Propagated /\ code = Assemble(<<LoadLocal(0), LoadConst(7), PutField(1)>>)) =>
        Emitted(cfg) = <<stmt_expr(<<"Assign",
                                     <<"Field", Some(mk_variable(local(0))), 1>>,
                                     None, <<"Literal", 7>>>>)>>

IsBinopBody(c) ==
    /\ Len(c) = 4
    /\ c[1][2][1] = "Load" /\ c[1][2][2][1] = "LValue" /\ c[1][2][2][2][1] = "Local"
    /\ c[2][2][1] = "Load" /\ c[2][2][2][1] = "LValue" /\ c[2][2][2][2][1] = "Local"
    /\ c[3][2][1] = "Arithm" /\ c[3][2][2][1] = "BinaryOp"
    /\ c[4][2][1] = "Store" /\ c[4][2][2][1] = "Local"

\* C8: a body that is Load(Local i); Load(Local j); BinaryOp; Store(Local k)
\* is turned by lifting and propagation into exactly the one statement
\* local_k = local_i <binop> local_j, local_i being the left operand.
C8_BinopIsOneAssignment ==
    (Propagated /\ IsBinopBody(code)) =>
        Emitted(cfg) =
            <<stmt_expr(<<"Assign", <<"Variable", local(code[4][2][2][2])>>, None,
                          <<"BinaryOp", convert_bin_op(code[3][2][2][2]),
                            mk_variable(local(code[1][2][2][2][2])),
                            mk_variable(local(code[2][2][2][2][2]))>>>>)>>

\* C9: after propagate the statement at a definition's location is Nop iff
\* the definition had uses <= 1 and non_propagatable_uses = 0 when the
\* analysis converged; the assignment of every other definition is still
\* at its location and assigns the same variable.
C9_NopIffPropagatable ==
    Propagated =>
        \A id \in DOMAIN info.definitions :
            LET def == info.definitions[id]
                stmt == cfg.bbs[id[1] + 1].stmts[id[2] + 1]
                was == lifted.bbs[id[1] + 1].stmts[id[2] + 1]
            IN /\ IsVariableAssign(was) /\ was[2][2][2] = def.ident
               /\ (stmt = <<"Nop">>) <=> (def.uses <= 1 /\ def.non_propagatable_uses = 0)
               /\ stmt /= <<"Nop">> =>
                    IsVariableAssign(stmt) /\ stmt[2][2][2] = def.ident

\* propagate returned a graph in which one definition was made Nop and
\* another, read where two definitions reach, is still an assignment
C9_Witness ==
    /\ Propagated
    /\ \E id \in DOMAIN info.definitions :
          /\ info.definitions[id].non_propagatable_uses > 0
          /\ IsVariableAssign(cfg.bbs[id[1] + 1].stmts[id[2] + 1])
    /\ \E id \in DOMAIN info.definitions :
          /\ info.definitions[id].uses = 1
          /\ info.definitions[id].non_propagatable_uses = 0
          /\ cfg.bbs[id[1] + 1].stmts[id[2] + 1] = <<"Nop">>

(***************************************************************************)
(* The values a block computes.  An environment maps identifiers to        *)
(* integers; the statements of a block run in order up to its Return.      *)
(***************************************************************************)
RECURSIVE Eval(_, _)
Eval(e, env) ==
    CASE e[1] = "Literal" -> e[2]
      [] IsVariableRead(e) -> IF e[2][2] \in DOMAIN env THEN env[e[2][2]] ELSE 0
      [] e[1] = "BinaryOp" /\ e[2] = "Add" -> Eval(e[3], env) + Eval(e[4], env)
      [] OTHER -> 0

\* the value returned by the first Return of a value among stmts[i..],
\* run from env; None when there is none
RECURSIVE Run(_, _, _)
Run(stmts, i, env) ==
    IF i > Len(stmts) THEN None
    ELSE IF stmts[i][1] = "Return"
    THEN IF IsSome(stmts[i][2]) THEN Some(Eval(Unwrap(stmts[i][2]), env)) ELSE None
    ELSE IF IsVariableAssign(stmts[i])
    THEN CHOOSE result \in
            {Run(stmts, i + 1, next)
                : next \in {Insert(env, stmts[i][2][2][2], Eval(stmts[i][2][4], env))}} :
            TRUE
    ELSE Run(stmts, i + 1, env)

\* block 0 is entered from the method's entry alone and ends in a Return
StraightLine(g) ==
    /\ \A e \in Range(g.edges) : e[2] = 0 => e[1] = g.entry_point
    /\ g.bbs[1].stmts /= <<>>
    /\ g.bbs[1].stmts[Len(g.bbs[1].stmts)][1] = "Return"

\* C10: propagation keeps the order of evaluation, so a block computes the
\* same values before and after it: block 0, run from the same initial
\* value of local_0, returns the same value in the graph propagate was
\* given and in the graph it returned.
C10_SameValues ==
    (Propagated /\ StraightLine(lifted)) =>
        \A x \in 1..2 :
            Run(lifted.bbs[1].stmts, 1, local(0) :> x)
                = Run(cfg.bbs[1].stmts, 1, local(0) :> x)

(***************************************************************************)
(* More properties of build_cfg, read off the graph it returned.           *)
(***************************************************************************)
\* block v lost its last instruction, a Jump: only a Jump pushes a true edge
EndedInJump(g, v) == \E e \in Range(g.edges) : e[1] = v /\ e[3] = TRUE

\* the number of instructions block v was cut with
BlockLength(g, v) == Len(g.bbs[v + 1].stmts) + (IF EndedInJump(g, v) THEN 1 ELSE 0)

\* the 0-based index in the instruction list at which block v starts
RECURSIVE BlockStart(_, _)
BlockStart(g, v) == IF v = 0 THEN 0 ELSE BlockStart(g, v - 1) + BlockLength(g, v - 1)

\* the 0-based index of the instruction at pc address
IndexOfPc(address) == (CHOOSE i \in 1..Len(code) : code[i][1] = address) - 1

\* the edge of a block that ends in an unconditional Jump is the edge to
\* the block that starts at the jump address, with the weight w
GotoEdges(w) ==
    \A v \in BlockNodes(cfg) :
        LET last == LastInstruction(v)
        IN (IsJump(last) /\ ~IsSome(last[2])) =>
              /\ Len(OutEdges(cfg.edges, v)) = 1
              /\ \E e \in Range(OutEdges(cfg.edges, v)) :
                    /\ e[2] \in BlockNodes(cfg)
                    /\ BlockStart(cfg, e[2]) = IndexOfPc(last[3])
                    /\ e[3] = w
              /\ \A i \in 1..Len(cfg.bbs[v + 1].stmts) : ~IsJump(cfg.bbs[v + 1].stmts[i])
              /\ ~IsSome(cfg.bbs[v + 1].terminator)

RECURSIVE WithoutJumps(_)
WithoutJumps(c) ==
    IF c = <<>> THEN <<>>
    ELSE (IF IsJump(Head(c)[2]) THEN <<>> ELSE <<Head(c)[2]>>) \o WithoutJumps(Tail(c))

\* C20: build_cfg starts a block at index i exactly when i = 0, i is the
\* index of the instruction at some Jump's address, or i is the index right
\* after a Jump or a Return; the blocks partition the instruction list in
\* its order, and the statements of all blocks, one block after the other,
\* are the instruction list without the Jumps that ended blocks.
C20_LeadersAndPartition ==
    CfgBuilt =>
        LET n == Len(cfg.bbs) - 2
            leaders == {0}
                \cup {IndexOfPc(code[j][2][3]) : j \in {k \in 1..Len(code) : IsJump(code[k][2])}}
                \cup {j \in 1..Len(code) - 1 : IsJump(code[j][2]) \/ IsReturn(code[j][2])}
        IN /\ BlockNodes(cfg) = 0..n - 1
           /\ {BlockStart(cfg, v) : v \in 0..n - 1} = leaders
           /\ \A v \in 0..n - 1 : BlockLength(cfg, v) >= 1
           /\ BlockStart(cfg, n) = Len(code)
           /\ \A v \in 0..n - 1 : \A i \in 1..Len(cfg.bbs[v + 1].stmts) :
                 cfg.bbs[v + 1].stmts[i] = code[BlockStart(cfg, v) + i][2]
           /\ \A v \in 0..n - 1 :
                 EndedInJump(cfg, v) => IsJump(code[BlockStart(cfg, v + 1)][2])
           /\ ConcatAll([v \in 1..n |-> cfg.bbs[v].stmts]) = WithoutJumps(code)

\* a graph was built with a block after a Return, a block at a jump
\* address that follows no Jump or Return, and a Jump dropped
C20_Witness ==
    /\ CfgBuilt
    /\ \E v \in BlockNodes(cfg) :
          v > 0 /\ IsReturn(code[BlockStart(cfg, v)][2])
    /\ \E v \in BlockNodes(cfg) :
          /\ v > 0
          /\ ~IsReturn(code[BlockStart(cfg, v)][2])
          /\ ~IsJump(code[BlockStart(cfg, v)][2])
    /\ \E v \in BlockNodes(cfg) : EndedInJump(cfg, v)

(***************************************************************************)
(* Properties of the constructor pass.                                     *)
(***************************************************************************)
\* the first statement of the method's body that is not a Nop
StartsWith(g, stmt) ==
    /\ Len(g.bbs) > 0
    /\ NonNop(g.bbs[1].stmts) /= <<>>
    /\ Head(NonNop(g.bbs[1].stmts)) = stmt

\* local_0.<init>() of java.lang.Object, as lifting and propagation leave it
ObjectInitCall == stmt_expr(<<"Invoke", Some(mk_variable(local(0))), 3, <<>>>>)

IsConstructor == IsSome(decl) /\ Unwrap(decl).kind = "Constructor"

\* C11: an <init> method whose lifted and propagated body starts with the
\* invocation of <init> of java.lang.Object on the object loaded from
\* local 0 passes the constructor pass without its assertion failing, and
\* the Constructor it becomes starts with SuperCall([]).
C11_ObjectInitBecomesSuperCall ==
    /\ (stage = "aborted" /\ abort = Some(ConstructorPanic))
            => ~StartsWith(cfg, ObjectInitCall)
    /\ (IsConstructor /\ code[1][2] = LoadLocal(0) /\ Len(code) > 1
            /\ code[2][2] = <<"Invoke", 3, "Special">>)
            => StartsWith(cfg, <<"SuperCall", <<>>>>)

\* an invocation statement of <init> whose receiver is not This
HasInitOnOther(g) ==
    \E v \in 1..Len(g.bbs) : \E i \in 1..Len(g.bbs[v].stmts) :
        /\ VisitPanics(g.bbs[v].stmts[i])
        /\ method_refs[g.bbs[v].stmts[i][2][3]].name = "<init>"

\* C12: the constructor pass aborts exactly when the constructor's body has
\* an invocation statement of a method named <init> whose receiver is not
\* This; invocation statements of other methods never make it abort.
C12_AbortsOnlyOnInit ==
    /\ (stage = "aborted" /\ abort = Some(ConstructorPanic)) => HasInitOnOther(cfg)
    /\ IsConstructor => ~HasInitOnOther(cfg)

(***************************************************************************)
(* Properties of transform_method.                                         *)
(***************************************************************************)
\* C18: a method whose Code attribute has a non-empty exception table is
\* rejected: no Code made from it reaches build_cfg.
C18_ExceptionTableRejected ==
    exception_table /= <<>> => stage = "transform_method"

(***************************************************************************)
(* Properties of the dominators.                                           *)
(***************************************************************************)
ContextCreated == stage = "collect_loops"

\* C14: in the dominators computed from the entry point get_immediate(entry)
\* is None and is_for(entry, n) holds for every other node n of the graph,
\* the blocks no path from the entry reaches included.
C14_EntryDominatesAll ==
    ContextCreated =>
        /\ get_immediate(ctx.dominators, cfg.entry_point) = None
        /\ \A n \in 0..(Len(cfg.bbs) - 1) :
              is_for(ctx.dominators, cfg.entry_point, n)

(***************************************************************************)
(* Properties of loop discovery.                                           *)
(***************************************************************************)
\* collect_loops has returned or panicked
LoopsCollected ==
    \/ stage \in {"structure_from_to", "done"}
    \/ stage = "aborted" /\ ctx /= NoContext

\* the nodes of a set that have a predecessor outside the set
EntryPoints(g, nodes) ==
    {n \in nodes : \E a \in Arcs(g, FALSE) : a[2] = n /\ a[1] \notin nodes}

\* the loops among the strongly connected components of the whole graph
LoopSccs(g) ==
    {nodes \in compute_strongly_connected_components(g, AllNodes(g)) :
        is_scc_loop(g, nodes)}

IsMultipleEntriesPanic(a) ==
    /\ IsSome(a)
    /\ Unwrap(a)[1] = MultipleEntriesPanic({}, {})[1]

\* C15: loop discovery aborts whenever a loop has more than one node with a
\* predecessor outside the loop, and its message names the blocks of such a
\* loop and those nodes; a loop with exactly one such node is registered
\* with that node as its entry.
C15_EntriesOfLoops ==
    LoopsCollected =>
        /\ \A nodes \in LoopSccs(cfg) :
              Cardinality(EntryPoints(cfg, nodes)) > 1 => stage = "aborted"
        /\ IsMultipleEntriesPanic(abort) =>
              /\ Cardinality(Unwrap(abort)[3]) > 1
              /\ Unwrap(abort)[3] = EntryPoints(cfg, Unwrap(abort)[2])
        /\ ~IsMultipleEntriesPanic(abort) =>
              \A nodes \in LoopSccs(cfg) : \A n \in nodes :
                 EntryPoints(cfg, nodes) = {n} =>
                    /\ n \in DOMAIN ctx.entry_to_loop_index
                    /\ ctx.loops[ctx.entry_to_loop_index[n] + 1].nodes = nodes
                    /\ ctx.loops[ctx.entry_to_loop_index[n] + 1].entry = n

(***************************************************************************)
(* Properties of structuring.                                              *)
(***************************************************************************)
Structured == stage = "done"

\* every Break and Continue of the statements names a label of labels or of
\* a While statement around it
RECURSIVE Enclosed(_, _)
Enclosed(stmts, labels) ==
    \A i \in 1..Len(stmts) :
        CASE stmts[i][1] = "If" ->
                /\ Enclosed(stmts[i][3], labels)
                /\ Enclosed(Unwrap(stmts[i][4]), labels)
          [] stmts[i][1] = "While" ->
                Enclosed(stmts[i][4], labels \cup {stmts[i][2]})
          [] stmts[i][1] \in {"Break", "Continue"} -> stmts[i][2] \in labels
          [] OTHER -> TRUE

\* C13: when structuring completes, every Break(loop_i) and every
\* Continue(loop_i) of the block it returns lies in the body of the While
\* statement labelled loop_i.
C13_JumpsInsideTheirLoop ==
    Structured => Enclosed(Unwrap(structured), {})

\* the method of the simple if: ifne to the second return
SimpleIf ==
    Assemble(<<LoadLocal(0), <<"JumpTo", IfNe, 4>>, LoadConst(1),
               <<"Return", Some(<<>>)>>, LoadConst(2), <<"Return", Some(<<>>)>>>>)

\* statements without the Nop statements propagation leaves, at every depth
RECURSIVE WithoutNops(_)
WithoutNops(stmts) ==
    IF stmts = <<>> THEN <<>>
    ELSE (CASE Head(stmts) = <<"Nop">> -> <<>>
            [] Head(stmts)[1] = "If" ->
                  <<<<"If", Head(stmts)[2], WithoutNops(Head(stmts)[3]),
                      Some(WithoutNops(Unwrap(Head(stmts)[4])))>>>>
            [] Head(stmts)[1] = "While" ->
                  <<<<"While", Head(stmts)[2], Head(stmts)[3],
                      WithoutNops(Head(stmts)[4])>>>>
            [] OTHER -> <<Head(stmts)>>)
         \o WithoutNops(Tail(stmts))

Local0IsZero(ord) ==
    <<"BinaryOp", <<"Cmp", ord>>, mk_variable(local(0)), <<"Literal", 0>>>>

ReturnLiteral(n) == <<"Return", Some(<<"Literal", n>>)>>

\* C16 as stated: the simple if becomes the single statement
\* If{local_0 == 0, then [Return(1)], els [Return(2)]}: the condition is
\* the negation of the test of the jump, the then-arm the fall-through.
C16_SimpleIfNegated ==
    code = SimpleIf =>
        /\ stage /= "aborted"
        /\ Structured =>
              WithoutNops(Unwrap(structured)) =
                 <<<<"If", Local0IsZero("EQ"), <<ReturnLiteral(1)>>,
                     Some(<<ReturnLiteral(2)>>)>>>>

\* C16: the simple if becomes the single statement
\* If{local_0 != 0, then [Return(2)], els [Return(1)]}: the condition is
\* the test of the jump itself, the then-arm is the code the jump leads to
\* and the else-arm the fall-through.
C16_SimpleIfKeepsTest ==
    code = SimpleIf =>
        /\ stage /= "aborted"
        /\ Structured =>
              WithoutNops(Unwrap(structured)) =
                 <<<<"If", Local0IsZero("NE"), <<ReturnLiteral(2)>>,
                     Some(<<ReturnLiteral(1)>>)>>>>

C16_Witness ==
    /\ code = SimpleIf
    /\ Structured
    /\ \E i \in 1..Len(Unwrap(structured)) : Unwrap(structured)[i][1] = "If"

\* the method of the counted loop: while (local_0 < 10) local_0++
CountedLoop ==
    Assemble(<<LoadLocal(0), LoadConst(10), <<"JumpTo", Some(<<"Cmp", "GE">>), 5>>,
               <<"Arithm", <<"IncreaseLocal", 0, 1>>>>, <<"JumpTo", None, 0>>,
               <<"Return", None>>>>)

IncreaseLocal0 ==
    stmt_expr(<<"Assign", <<"Variable", local(0)>>, Some("Add"), <<"Literal", 1>>>>)

\* C17: for the counted loop the pipeline completes without aborting,
\* registers exactly one loop whose continue edges hold the back edge to
\* the header, and emits one labelled while (true) whose body is an If with
\* the arms [local_0 += 1; continue] and [break].
C17_CountedLoopIsStructured ==
    code = CountedLoop =>
        /\ stage /= "aborted"
        /\ Structured =>
              /\ Len(ctx.loops) = 1
              /\ <<1, 0>> \in ctx.loops[1].continue_edges
              /\ \E w \in Range(WithoutNops(Unwrap(structured))) :
                    /\ w[1] = "While"
                    /\ w[2] = Some(loop_label(0))
                    /\ w[3] = <<"Literal", TRUE>>
                    /\ \E f \in Range(w[4]) :
                          /\ f[1] = "If"
                          /\ {f[3], Unwrap(f[4])} =
                                {<<IncreaseLocal0, <<"Continue", Some(loop_label(0))>>>>,
                                 <<<<"Break", Some(loop_label(0))>>>>}

(***************************************************************************)
(* C21: the StackLayout counter and relative stack references              *)
(***************************************************************************)
\* an instruction that only pushes: a load of a constant or of a local
IsPlainPush(instr) ==
    /\ instr[1] = "Load"
    /\ \/ instr[2][1] = "Constant"
       \/ instr[2][1] = "LValue" /\ instr[2][2][1] = "Local"

\* the positions of code that hold a getfield (InstanceField with
\* object_stack_index -1) after nothing but plain pushes, so that top, counted
\* from 0, is k - 1 when the field reference is resolved
GetFieldAfterPushes ==
    {k \in 2..Len(code) :
        /\ code[k][2][1] = "Load"
        /\ code[k][2][2][1] = "LValue"
        /\ code[k][2][2][2][1] = "InstanceField"
        /\ code[k][2][2][2][2] = -1
        /\ \A j \in 1..(k - 1) : IsPlainPush(code[j][2])}

\* the object a lifted field load reads
FieldObject(stmt) == stmt[2][4][2][2]

\* C21: starting from top = 0, each push returns the old top and increments
\* it, and a reference to the slot i positions below the top
\* (InstanceField with object_stack_index -i) resolves to stack variable
\* top - i: after k - 1 pushes a getfield reads its object from stack
\* variable k - 2, the id the most recent push returned.
C21_RelativeReferenceBelowTop ==
    LiftingReturned =>
        \A k \in GetFieldAfterPushes :
            /\ \A j \in 1..(k - 1) :
                   lifted.bbs[1].stmts[j][2][2] = <<"Variable", stack(j - 1)>>
            /\ FieldObject(lifted.bbs[1].stmts[k]) = Some(mk_variable(stack(k - 2)))

(***************************************************************************)
(* C22: the break edges of a registered loop                               *)
(***************************************************************************)
\* the edges into the break point of a loop whose source the loop entry
\* dominates
DominatedBreakEdges(lupe) ==
    {a \in Arcs(cfg, FALSE) :
        /\ a[2] = lupe.break_point
        /\ is_for(ctx.dominators, lupe.entry, a[1])}

\* C22: for every registered loop, break_edges is exactly the set of edges
\* (s, break_point) whose source s is dominated by the loop entry, also when
\* the break point itself is not dominated by the entry.
C22_BreakEdgesBySource ==
    LoopsCollected =>
        \A i \in 1..Len(ctx.loops) :
            ctx.loops[i].break_edges = DominatedBreakEdges(ctx.loops[i])

(***************************************************************************)
(* C23: a jump to the entry of a registered loop                           *)
(***************************************************************************)
\* the loops are registered and emission can run
LoopsRegistered == stage \in {"structure_from_to", "done"}

\* the edges of the graph into the entry of a registered loop
JumpsToLoopEntry ==
    {a \in Arcs(cfg, FALSE) : a[2] \in DOMAIN ctx.entry_to_loop_index}

\* what handle_jump is to do for the jump under the stop point, when it
\* returns: Continue and the stop point for a jump from a node of the loop,
\* else one Loop around the structuring from the entry to the break point,
\* and the break point
JumpToLoopEntryEmits(jump, stop) ==
    \A h \in {handle_jump(ctx, cfg, jump, stop, MaxDepth)} :
        \A index \in {ctx.entry_to_loop_index[jump[2]]} :
            \A lupe \in {ctx.loops[index + 1]} :
                h.ok =>
                    /\ lupe.entry = jump[2]
                    /\ IF jump[1] \in lupe.nodes
                       THEN h = SOk(<<<<"Continue", index>>>>, stop)
                       ELSE \A body \in {structure_from_to(ctx, cfg, jump[2],
                                                           lupe.break_point, MaxDepth)} :
                               /\ body.ok
                               /\ h = SOk(<<<<"Loop", index, body.items>>>>,
                                          lupe.break_point)
                               /\ structured_to_statement(cfg, h.items) =
                                     <<<<"While", Some(loop_label(index)),
                                         <<"Literal", TRUE>>,
                                         structured_to_statement(cfg, body.items)>>>>

\* C23: during emission a jump (src, dst) to a registered loop entry emits
\* Continue of that loop and returns the stop point exactly when src is a
\* node of the loop; otherwise it emits one While labeled with the loop, with
\* the condition true and the structuring from dst up to the break point as
\* its body, and emission resumes at the break point.
C23_JumpToLoopEntry ==
    LoopsRegistered =>
        \A jump \in JumpsToLoopEntry : \A stop \in Nodes(cfg) :
            JumpToLoopEntryEmits(jump, stop)

\* a jump into a loop from outside and a jump back from inside both emitted
C23_Witness ==
    /\ Structured
    /\ \E jump \in JumpsToLoopEntry : \E stop \in Nodes(cfg) :
          /\ jump[1] \in ctx.loops[ctx.entry_to_loop_index[jump[2]] + 1].nodes
          /\ handle_jump(ctx, cfg, jump, stop, MaxDepth).ok
    /\ \E jump \in JumpsToLoopEntry : \E stop \in Nodes(cfg) :
          /\ jump[1] \notin ctx.loops[ctx.entry_to_loop_index[jump[2]] + 1].nodes
          /\ handle_jump(ctx, cfg, jump, stop, MaxDepth).ok

(***************************************************************************)
(* C24: decoding a jump opcode                                             *)
(***************************************************************************)
Orderings == <<"EQ", "NE", "LT", "GE", "GT", "LE">>

\* the condition the opcode stands for: if<cond> 0x99..0x9e, if_icmp<cond>
\* 0x9f..0xa4, if_acmpeq 0xa5, if_acmpne 0xa6, goto 0xa7
ConditionOfOpcode(opcode) ==
    CASE opcode \in 153..158 -> Some(<<"CmpZero", Orderings[opcode - 152]>>)
      [] opcode \in 159..164 -> Some(<<"Cmp", Orderings[opcode - 158]>>)
      [] opcode = 165 -> Some(<<"CmpRef", "EQ">>)
      [] opcode = 166 -> Some(<<"CmpRef", "NE">>)
      [] opcode = 167 -> None

\* the positions of code that hold a jump opcode in 0x99..0xa7
JumpOpcodeAt == {i \in 1..Len(code) : code[i][2][1] = "Opcode" /\ code[i][2][2] \in 153..167}

\* C24: decoding a jump opcode gives CmpZero for 0x99..0x9e and Cmp for
\* 0x9f..0xa4, with the orderings EQ, NE, LT, GE, GT, LE in this order, and
\* CmpRef(EQ), CmpRef(NE) for 0xa5, 0xa6; it aborts for no opcode in
\* 0x99..0xa7.
C24_JumpDecoding ==
    [][stage = "transform_method" =>
          /\ stage' = "build_cfg"
          /\ \A i \in JumpOpcodeAt :
                /\ code'[i][2][1] = "Jump"
                /\ code'[i][2][2] = ConditionOfOpcode(code[i][2][2])]_vars

(***************************************************************************)
(* C25: the targets of the edges of build_cfg                              *)
(***************************************************************************)
\* the blocks that do not end in a Return or an unconditional Jump: control
\* falls through their end, or takes their conditional jump
FallsThrough(v) ==
    LET last == LastInstruction(v)
    IN ~IsReturn(last) /\ ~(IsJump(last) /\ ~IsSome(last[2]))

\* C25: in every graph build_cfg returns no edge targets the synthetic entry
\* block, and the fall-through (conditional-false) edge of a block targets a
\* basic block of the method, also for the block of the last instruction
\* when that is neither a Return nor an unconditional Jump.
C25_FallThroughTargetsBlock ==
    CfgBuilt =>
        /\ \A e \in Range(cfg.edges) : e[2] /= cfg.entry_point
        /\ \A v \in BlockNodes(cfg) :
              FallsThrough(v) =>
                  \A e \in Range(cfg.edges) :
                      (e[1] = v /\ e[3] = FALSE) => e[2] \in BlockNodes(cfg)

(***************************************************************************)
(* C26: assignments that are never read                                    *)
(***************************************************************************)
\* C26: propagation replaces an assignment by Nop only if the assigned
\* variable is read, where its right-hand side was inlined; an assignment
\* whose variable is not read afterwards (uses = 0), such as a store to a
\* local, is still at its location.
C26_UnreadAssignmentKept ==
    Propagated =>
        \A id \in DOMAIN info.definitions :
            info.definitions[id].uses = 0 =>
                /\ cfg.bbs[id[1] + 1].stmts[id[2] + 1] /= <<"Nop">>
                /\ cfg.bbs[id[1] + 1].stmts[id[2] + 1][2][2] =
                       <<"Variable", info.definitions[id].ident>>

(***************************************************************************)
(* C27: the definitions that reach a surviving read                        *)
(***************************************************************************)
\* the definitions that reach the point before statement i (from 0) of
\* block b, as collect_def_info found them: those on entry to the block,
\* overwritten by the assignments of the block before i
RECURSIVE RelevantBefore(_, _)
RelevantBefore(b, i) ==
    IF i = 0 THEN info.relevant_on_bb_entry[b + 1]
    ELSE LET stmt == lifted.bbs[b + 1].stmts[i]
         IN IF IsVariableAssign(stmt)
            THEN Insert(RelevantBefore(b, i - 1), stmt[2][2][2], {<<b, i - 1>>})
            ELSE RelevantBefore(b, i - 1)

\* the definition is still an assignment of its variable in the graph
StillAssigned(id) ==
    LET stmt == cfg.bbs[id[1] + 1].stmts[id[2] + 1]
    IN IsVariableAssign(stmt) /\ stmt[2][2][2] = info.definitions[id].ident

\* every definition that reaches one of the reads at the point is still an
\* assignment
ReadsAreDefined(reads, relevant) ==
    \A ident \in Range(reads) : \A id \in Lookup(relevant, ident) : StillAssigned(id)

\* the reads of the terminators of the propagated graph
TerminatorsDefined ==
    \A b \in Nodes(cfg) :
        IsSome(cfg.bbs[b + 1].terminator) =>
            ReadsAreDefined(ExprReads(Unwrap(cfg.bbs[b + 1].terminator)),
                            RelevantBefore(b, Len(cfg.bbs[b + 1].stmts)))

\* C27: after propagation every definition that reaches a variable read left
\* in a statement or in a terminator is still present as an assignment, also
\* for a terminator that definitions of several predecessor blocks reach.
C27_ReachingDefinitionsKept ==
    Propagated =>
        /\ \A b \in Nodes(cfg) : \A i \in 1..Len(cfg.bbs[b + 1].stmts) :
              ReadsAreDefined(StatementReads(cfg.bbs[b + 1].stmts[i]),
                              RelevantBefore(b, i - 1))
        /\ TerminatorsDefined

(***************************************************************************)
(* C28: the order of propagate_in_definitions                              *)
(***************************************************************************)
\* the Location that comes first: by block, then by statement
FirstLocation(ids) ==
    CHOOSE id \in ids :
        \A other \in ids :
            id[1] < other[1] \/ (id[1] = other[1] /\ id[2] <= other[2])

\* propagate_in_definitions with its outer loop in the order of the
\* Locations
RECURSIVE InLocationOrder(_, _)
InLocationOrder(ds, ids) ==
    IF ids = {} THEN ds
    ELSE CHOOSE result \in
            {InLocationOrder(ReplaceIn(ds, id), ids \ {id})
                : id \in {FirstLocation(ids)}} : TRUE

\* the propagatable definitions propagate hands to propagate_in_definitions
PropagatableDefinitions ==
    [id \in {d \in DOMAIN info.definitions : is_propagatable(info.definitions[d])}
        |-> info.definitions[id]]

\* C28: the graph propagate returns is a function of the input graph alone:
\* whatever order propagate_in_definitions iterated in, the statements and
\* terminators are those the iteration in the order of the Locations gives.
C28_OrderIndependent ==
    Propagated =>
        cfg = propagate_in_code(lifted,
                                InLocationOrder(PropagatableDefinitions,
                                                DOMAIN PropagatableDefinitions),
                                info.relevant_on_bb_entry).cfg

(***************************************************************************)
(* C29: the basic blocks of the structured method                          *)
(***************************************************************************)
\* the Structured items cfg_to_structured returned
StructuredItems ==
    structure_from_to(ctx, cfg, cfg.entry_point, cfg.exit_point, MaxDepth).items

\* how often BasicBlock(label) occurs in the items, nested ones included
RECURSIVE Occurrences(_, _)
Occurrences(items, label) ==
    IF items = <<>> THEN 0
    ELSE (CASE Head(items)[1] = "BasicBlock" -> IF Head(items)[2] = label THEN 1 ELSE 0
            [] Head(items)[1] = "If" ->
                 Occurrences(Head(items)[3], label) + Occurrences(Head(items)[4], label)
            [] Head(items)[1] = "Loop" -> Occurrences(Head(items)[3], label)
            [] OTHER -> 0)
         + Occurrences(Tail(items), label)

\* C29: when structuring completes, every basic block label occurs at most
\* once as a BasicBlock item, and every block the entry point reaches, the
\* exit point excepted, occurs exactly once.
C29_EachBlockOnce ==
    Structured =>
        \A items \in {StructuredItems} :
            /\ \A label \in Nodes(cfg) : Occurrences(items, label) <= 1
            /\ \A label \in Reach(Arcs(cfg, FALSE), {cfg.entry_point}) \ {cfg.exit_point} :
                  Occurrences(items, label) = 1

(***************************************************************************)
(* C30: structuring returns                                                *)
(***************************************************************************)
\* cfg_to_structured ran: it returned the items, or a panic ended it
StructuringEnded ==
    \/ stage = "done"
    \/ stage = "aborted" /\ ctx /= NoContext /\ decl /= None

\* C30: for every graph build_cfg produced, cfg_to_structured either aborts
\* on an assertion or returns: no call chain of structure_from_to,
\* translate_block and handle_jump goes on without reaching its stop point
\* or the exit point.
C30_StructuringReturns ==
    StructuringEnded => abort /= Some(NoReturn)

====
